---- MODULE Spec2Model ----
(***************************************************************************)
(* Model of the resource detection engine (class DetectionEngine) of the   *)
(* study-resource organizer: the detector registry (a Map keyed by         *)
(* detector id), the engine configuration, and the engine's operations     *)
(* register, unregister, getAll, detect, detectAll, detectFor, getConfig   *)
(* and setConfig.                                                          *)
(*                                                                         *)
(* A string is a sequence of one-character strings.  A value of type       *)
(* `DetectionResult | null` is a sequence of at most one result (<<>> is   *)
(* null), so that every return value is a sequence.                        *)
(*                                                                         *)
(* Spec is the engine with all its methods; ConfigSpec is its              *)
(* configuration alone, with every partial configuration.                  *)
(*                                                                         *)
(* The four built-in detectors (YouTube, Paper, Book, Article) are         *)
(* operators on strings; their regular expressions are written out as      *)
(* operators that find the leftmost match of each pattern.  YouTubeSpec,   *)
(* PaperSpec and BookSpec call detect and detectAll of one detector on     *)
(* that detector's inputs, DetectorsSpec calls all four detectors on all   *)
(* these inputs, and BuiltinSpec is the engine after initializeDetectors,  *)
(* asked to detect each of them.                                           *)
(*                                                                         *)
(* ArticleSpec calls the Article detector on hosts with and without a      *)
(* protocol.  HookSpec is the useDetection hook (input, debounce timer,    *)
(* detections, selection) and ComponentSpec the AutoDetectInput component, *)
(* each with its timers as a set of pending callbacks.                     *)
(*                                                                         *)
(* NoteSpec and TagSpec are the CRUD actions of the study database over    *)
(* the store: resources with their notes, and resources with their         *)
(* categories and topics (categoryTopics is kept as JSON text).            *)
(***************************************************************************)
EXTENDS Integers, Sequences, FiniteSets, TLC

VARIABLES
    detectors,  \* this.detectors: the Map's values, in the Map's insertion order
    config,     \* this.config
    call,       \* the most recent call on the engine: operation and arguments
    ret,        \* what that call returned (a sequence, see above)
    invoked,    \* the detector methods that call invoked, in order
    regSeq,     \* history: the registered ids, ordered by their latest register call
    lastOp,     \* history: per id, the detector of its latest register, or NoDetector
    baseline,   \* history: for each input, what detectAll returned for it right
                \* after the registry or the configuration was last written;
                \* taken at the first query that follows the write
    hook,       \* the signals and the timer of one useDetection() instance
    component,  \* one AutoDetectInput with the state of the parent that owns its props
    db          \* the tables of the database

vars == <<detectors, config, call, ret, invoked, regSeq, lastOp, baseline, hook, component, db>>

\* The engine by itself: no hook, no component and no database
EngineAlone == hook = <<>> /\ component = <<>> /\ db = <<>>

----------------------------------------------------------------------------
(* Bounds of the model *)

\* longest input string
MaxLen == 2
\* largest maxSuggestions a caller configures, besides the default
MaxCap == 1

Chars == {" ", "x"}

Inputs == UNION {[1..n -> Chars] : n \in 0..MaxLen}

----------------------------------------------------------------------------
(* Types *)

DetectionConfidence == {"definite", "high", "medium", "low"}

CONFIDENCE_SCORES ==
    [definite |-> 100, high |-> 80, medium |-> 50, low |-> 20]

DEFAULT_CONFIG ==
    [minConfidence |-> "low", maxSuggestions |-> 5, debounceMs |-> 300]

ConfigFields == {"minConfidence", "maxSuggestions", "debounceMs"}

\* maxSuggestions is any number: a negative one, 0..MaxCap and the default
CapValues == {0 - 1} \cup (0..MaxCap) \cup {DEFAULT_CONFIG.maxSuggestions}

DebounceValues == {0, DEFAULT_CONFIG.debounceMs}

Configs ==
    [minConfidence : DetectionConfidence,
     maxSuggestions : CapValues,
     debounceMs : DebounceValues]

\* Partial<DetectionEngineConfig>: the fields in keys are present with the
\* values of vals; the other fields of vals are not part of the object and
\* are kept at the default so that one partial has one representation.
Partials ==
    {p \in [keys : SUBSET ConfigFields, vals : Configs] :
        \A f \in ConfigFields \ p.keys : p.vals[f] = DEFAULT_CONFIG[f]}

EmptyPartial == [keys |-> {}, vals |-> DEFAULT_CONFIG]

\* The partials that give only fields the engine itself reads: debounceMs is
\* read by the callers of getConfig alone
RankingPartials == {p \in Partials : "debounceMs" \notin p.keys}

\* Those of them that give at most one field
SinglePartials == {p \in RankingPartials : Cardinality(p.keys) <= 1}

\* { ...base, ...partial }
Spread(base, partial) ==
    [f \in ConfigFields |->
        IF f \in partial.keys THEN partial.vals[f] ELSE base[f]]

----------------------------------------------------------------------------
(* String.prototype.trim *)

IsSpace(c) == c = " "

RECURSIVE TrimStart(_)
TrimStart(s) ==
    IF s = <<>> THEN s
    ELSE IF IsSpace(Head(s)) THEN TrimStart(Tail(s)) ELSE s

RECURSIVE TrimEnd(_)
TrimEnd(s) ==
    IF s = <<>> THEN s
    ELSE IF IsSpace(s[Len(s)]) THEN TrimEnd(SubSeq(s, 1, Len(s) - 1)) ELSE s

trim(s) == TrimEnd(TrimStart(s))

----------------------------------------------------------------------------
(* Strings: a string is the sequence of its characters, each a string of    *)
(* one character.  The operators below are the String and RegExp operations *)
(* the built-in detectors use.                                              *)

DigitChars == <<"0", "1", "2", "3", "4", "5", "6", "7", "8", "9">>

UpperCase == <<"A", "B", "C", "D", "E", "F", "G", "H", "I", "J", "K", "L", "M", "N", "O", "P", "Q",
    "R", "S", "T", "U", "V", "W", "X", "Y", "Z">>

LowerCase == <<"a", "b", "c", "d", "e", "f", "g", "h", "i", "j", "k", "l", "m", "n", "o", "p", "q",
    "r", "s", "t", "u", "v", "w", "x", "y", "z">>

Range(seq) == {seq[i] : i \in 1..Len(seq)}

\* \d
IsDigit(c) == c \in Range(DigitChars)

\* [A-Z]
IsUpper(c) == c \in Range(UpperCase)

\* [a-z]
IsLower(c) == c \in Range(LowerCase)

\* [a-zA-Z]
IsLetter(c) == IsUpper(c) \/ IsLower(c)

\* \w
IsWordChar(c) == IsLetter(c) \/ IsDigit(c) \/ c = "_"

\* [a-zA-Z0-9_-]
IsIdChar(c) == IsWordChar(c) \/ c = "-"

\* parseInt(c, 10) of a digit
parseInt(c) == (CHOOSE i \in 1..Len(DigitChars) : DigitChars[i] = c) - 1

LowerOf(c) ==
    IF IsUpper(c)
    THEN LowerCase[CHOOSE i \in 1..Len(UpperCase) : UpperCase[i] = c]
    ELSE c

UpperOf(c) ==
    IF IsLower(c)
    THEN UpperCase[CHOOSE i \in 1..Len(LowerCase) : LowerCase[i] = c]
    ELSE c

\* String.prototype.toLowerCase, toUpperCase
toLowerCase(s) == [i \in 1..Len(s) |-> LowerOf(s[i])]

toUpperCase(s) == [i \in 1..Len(s) |-> UpperOf(s[i])]

\* The literal lit stands in s at place i
StartsAt(s, i, lit) ==
    /\ i >= 1
    /\ i + Len(lit) - 1 <= Len(s)
    /\ SubSeq(s, i, i + Len(lit) - 1) = lit

\* String.prototype.includes
includes(s, lit) == \E i \in 1..(Len(s) - Len(lit) + 1) : StartsAt(s, i, lit)

\* s from place i to its end
From(s, i) == SubSeq(s, i, Len(s))

\* Every character of s is in the class
All(s, Class(_)) == \A i \in 1..Len(s) : Class(s[i])

\* The length of the longest run of characters of the class at place i
Run(s, i, Class(_)) ==
    IF i > Len(s) THEN 0
    ELSE LET ends == {j \in i..(Len(s) + 1) : j = Len(s) + 1 \/ ~Class(s[j])}
         IN  (CHOOSE j \in ends : \A k \in ends : j <= k) - i

Min(a, b) == IF a <= b THEN a ELSE b

\* The least element of a non-empty set of numbers
Least(S) == CHOOSE i \in S : \A j \in S : i <= j

\* input.match(/(?:lit1|lit2|...)([class]{min,max})/): the capture group
\* of the leftmost match, null (<<>>) if there is none.  At one place the
\* first alternative that matches is taken; the quantifier is greedy.
MatchAfter(s, lits, Class(_), min, max) ==
    LET Hit(i, k) == /\ StartsAt(s, i, lits[k])
                     /\ Run(s, i + Len(lits[k]), Class) >= min
        Group(from) == SubSeq(s, from, from + Min(Run(s, from, Class), max) - 1)
        After(i, k) == Group(i + Len(lits[k]))
        At(i) == After(i, Least({j \in 1..Len(lits) : Hit(i, j)}))
        Leftmost(places) == IF places = {} THEN <<>> ELSE <<At(Least(places))>>
    IN  Leftmost({i \in 1..Len(s) : \E k \in 1..Len(lits) : Hit(i, k)})

\* The first of a list of nullable values that is not null
RECURSIVE FirstMatch(_)
FirstMatch(matches) ==
    IF matches = <<>> THEN <<>>
    ELSE IF Head(matches) # <<>> THEN Head(matches)
    ELSE FirstMatch(Tail(matches))

\* trimmed.split(/\s+/) of a trimmed string: its words, and one empty word
\* for the empty string
RECURSIVE split(_)
split(s) ==
    IF s = <<>> THEN << <<>> >>
    ELSE LET n == Run(s, 1, LAMBDA c : ~IsSpace(c))
             gap == Run(s, n + 1, IsSpace)
         IN  IF n + gap >= Len(s) THEN <<SubSeq(s, 1, n)>>
             ELSE <<SubSeq(s, 1, n)>> \o split(From(s, n + gap + 1))

----------------------------------------------------------------------------
(* The built-in detectors.  A DetectionResult of a built-in detector keeps  *)
(* the fields the ranking and the callers read; context.extractedId and     *)
(* context.matchedPattern are null (<<>>) when the result has none.         *)

DetectionResult(pluginId, confidence, inputType, extractedId, matchedPattern) ==
    [pluginId |-> pluginId, confidence |-> confidence, inputType |-> inputType,
     extractedId |-> extractedId, matchedPattern |-> matchedPattern]

\* '://'
SchemeSeparator == <<":", "/", "/">>

----------------------------------------------------------------------------
(* YouTube detector *)

\* The length of a video id: {11}
VideoIdLength == 11

\* YOUTUBE_PATTERNS.video, in order
YouTubeVideo(s) ==
    FirstMatch(<<
        MatchAfter(s, <<<<"y", "o", "u", "t", "u", "b", "e", ".", "c", "o", "m", "/", "w", "a",
            "t", "c", "h", "?", "v", "=">>, <<"y", "o", "u", "t", "u", ".", "b", "e", "/">>>>,
                   IsIdChar, VideoIdLength, VideoIdLength),
        MatchAfter(s, <<<<"y", "o", "u", "t", "u", "b", "e", ".", "c", "o", "m", "/", "e", "m",
            "b", "e", "d", "/">>>>, IsIdChar, VideoIdLength, VideoIdLength),
        MatchAfter(s, <<<<"y", "o", "u", "t", "u", "b", "e", ".", "c", "o", "m", "/", "v", "/">>>>,
            IsIdChar, VideoIdLength, VideoIdLength)>>)

\* YOUTUBE_PATTERNS.shorts
YouTubeShorts(s) ==
    MatchAfter(s, <<<<"y", "o", "u", "t", "u", "b", "e", ".", "c", "o", "m", "/", "s", "h", "o",
        "r", "t", "s", "/">>>>, IsIdChar, VideoIdLength, VideoIdLength)

\* YOUTUBE_PATTERNS.playlist, in order: the second pattern asks for no domain
YouTubePlaylist(s) ==
    FirstMatch(<<
        MatchAfter(s, <<<<"y", "o", "u", "t", "u", "b", "e", ".", "c", "o", "m", "/", "p", "l",
            "a", "y", "l", "i", "s", "t", "?", "l", "i", "s", "t", "=">>>>, IsIdChar, 1, Len(s)),
        MatchAfter(s, <<<<"?", "l", "i", "s", "t", "=">>, <<"&", "l", "i", "s", "t", "=">>>>,
            IsIdChar, 1, Len(s))>>)

\* YOUTUBE_PATTERNS.channel, in order
YouTubeChannel(s) ==
    FirstMatch(<<
        MatchAfter(s, <<<<"y", "o", "u", "t", "u", "b", "e", ".", "c", "o", "m", "/", "@">>>>,
            IsIdChar, 1, Len(s)),
        MatchAfter(s, <<<<"y", "o", "u", "t", "u", "b", "e", ".", "c", "o", "m", "/", "c", "h",
            "a", "n", "n", "e", "l", "/">>>>, IsIdChar, 1, Len(s)),
        MatchAfter(s, <<<<"y", "o", "u", "t", "u", "b", "e", ".", "c", "o", "m", "/", "c", "/">>>>,
            IsIdChar, 1, Len(s))>>)

\* YOUTUBE_PATTERNS.videoId
IsVideoId(s) == Len(s) = VideoIdLength /\ All(s, IsIdChar)

\* if (match) return { type, id: match[1], pattern }: null if match is null
YouTubeType(type, pattern, match) ==
    IF match = <<>> THEN <<>>
    ELSE <<[type |-> type, id |-> match[1], pattern |-> pattern]>>

\* Mutant: the playlist patterns tried before the video patterns
detectYouTubeTypePlaylistFirst(s) ==
    FirstMatch(<<
        YouTubeType("playlist", "playlist-url", YouTubePlaylist(s)),
        YouTubeType("video", "video-url", YouTubeVideo(s)),
        YouTubeType("shorts", "shorts-url", YouTubeShorts(s)),
        YouTubeType("channel", "channel-url", YouTubeChannel(s)),
        YouTubeType("video-id", "bare-video-id", IF IsVideoId(s) THEN <<s>> ELSE <<>>)>>)

\* The first of the checks, in the order of the code, that returns; null is
\* <<>>
detectYouTubeType(s) ==
    FirstMatch(<<
        YouTubeType("video", "video-url", YouTubeVideo(s)),
        YouTubeType("shorts", "shorts-url", YouTubeShorts(s)),
        YouTubeType("playlist", "playlist-url", YouTubePlaylist(s)),
        YouTubeType("channel", "channel-url", YouTubeChannel(s)),
        YouTubeType("video-id", "bare-video-id", IF IsVideoId(s) THEN <<s>> ELSE <<>>)>>)

\* input.includes('youtube.com') || input.includes('youtu.be')
YouTubeIsUrl(s) == includes(s, <<"y", "o", "u", "t", "u", "b", "e", ".", "c", "o",
    "m">>) \/ includes(s, <<"y", "o", "u", "t", "u", ".", "b", "e">>)

\* Mutant: the YouTube detector with the lowest priority
youtubeDetectorLast ==
    [name |-> "youtube", id |-> "youtube", priority |-> 5, hasDetectAll |-> TRUE]

youtubeDetector ==
    [name |-> "youtube", id |-> "youtube", priority |-> 100, hasDetectAll |-> TRUE]

\* The DetectionResult for what detectYouTubeType returned
YouTubeResult(isUrl, result) ==
    IF result = <<>> THEN <<>>
    ELSE <<DetectionResult("youtube",
               IF isUrl THEN "definite" ELSE "high",
               IF isUrl THEN "url" ELSE "identifier",
               <<result[1].id>>, <<result[1].pattern>>)>>

\* youtubeDetector.detect: null is <<>>
youtubeDetect(s) == YouTubeResult(YouTubeIsUrl(s), detectYouTubeType(s))

\* youtubeDetector.detectAll
youtubeDetectAll(s) == youtubeDetect(s)

----------------------------------------------------------------------------
(* Paper detector *)

\* PAPER_PATTERNS.doi: /^10\.\d{4,}(?:\.\d+)*\/[^\s]+$/
\* after the registrant digits, groups of a dot and digits, then the slash
RECURSIVE DoiSuffixAt(_, _)
DoiSuffixAt(s, i) ==
    IF i <= Len(s) /\ s[i] = "." /\ Run(s, i + 1, IsDigit) >= 1
    THEN DoiSuffixAt(s, i + 1 + Run(s, i + 1, IsDigit))
    ELSE /\ i < Len(s)
         /\ s[i] = "/"
         /\ All(From(s, i + 1), LAMBDA c : ~IsSpace(c))

IsDoi(s) ==
    /\ StartsAt(s, 1, <<"1", "0", ".">>)
    /\ Run(s, 4, IsDigit) >= 4
    /\ DoiSuffixAt(s, 4 + Run(s, 4, IsDigit))

\* PAPER_PATTERNS.doiUrl: /(?:doi\.org|dx\.doi\.org)\/(.+)$/
\* the leftmost match starts at the first doi.org/ or, three characters
\* before it, at the dx. in front of it; the group is the rest of the input
DoiUrl(s) ==
    LET places == {i \in 1..Len(s) : StartsAt(s, i, <<"d", "o", "i", ".", "o", "r", "g", "/">>)}
    IN  IF places = {} THEN <<>>
        ELSE LET from == Least(places) + Len(<<"d", "o", "i", ".", "o", "r", "g", "/">>)
             IN  IF from > Len(s) THEN <<>> ELSE <<From(s, from)>>

\* a non-empty string is truthy
extractDoi(s) ==
    IF IsDoi(s) THEN <<s>> ELSE DoiUrl(s)

\* PAPER_PATTERNS.pmid: /^(?:PMID[:\s]?)?(\d{7,8})$/i
IsPmidDigits(s) == Len(s) \in 7..8 /\ All(s, IsDigit)

Pmid(s) ==
    IF IsPmidDigits(s) THEN <<s>>
    ELSE IF StartsAt(toLowerCase(s), 1, <<"p", "m", "i", "d">>) THEN
        IF IsPmidDigits(From(s, 5)) THEN <<From(s, 5)>>
        ELSE IF Len(s) >= 5 /\ (s[5] = ":" \/ IsSpace(s[5])) /\ IsPmidDigits(From(s, 6))
             THEN <<From(s, 6)>>
        ELSE <<>>
    ELSE <<>>

\* PAPER_PATTERNS.pubmedUrl
PubmedUrl(s) ==
    MatchAfter(s, <<<<"p", "u", "b", "m", "e", "d", ".", "n", "c", "b", "i", ".", "n", "l", "m",
        ".", "n", "i", "h", ".", "g", "o", "v", "/">>, <<"n", "c", "b", "i", ".", "n", "l", "m",
        ".", "n", "i", "h", ".", "g", "o", "v", "/", "p", "u", "b", "m", "e", "d", "/">>>>,
               IsDigit, 1, Len(s))

extractPmid(s) == FirstMatch(<<Pmid(s), PubmedUrl(s)>>)

\* \d{4}\.\d{4,5}(?:v\d+)? at place i of s: the length of the match, greedy,
\* 0 if there is none; v is the set of characters that match the letter v
ArxivIdAt(s, i, v) ==
    IF /\ Run(s, i, IsDigit) >= 4
       /\ i + 4 <= Len(s) /\ s[i + 4] = "."
       /\ Run(s, i + 5, IsDigit) >= 4
    THEN LET n == 5 + Min(Run(s, i + 5, IsDigit), 5)
             version == IF i + n <= Len(s) /\ s[i + n] \in v
                        THEN Run(s, i + n + 1, IsDigit) ELSE 0
         IN  IF version >= 1 THEN n + 1 + version ELSE n
    ELSE 0

\* PAPER_PATTERNS.arxiv: /^(?:arXiv:)?(\d{4}\.\d{4,5}(?:v\d+)?)$/i
\* the group reaches the end of the input, so the digits after the dot are
\* exactly four or five
Arxiv(s) ==
    LET id == IF StartsAt(toLowerCase(s), 1, <<"a", "r", "x", "i", "v", ":">>) THEN From(s,
        7) ELSE s
        n == Run(id, 6, IsDigit)
    IN  IF /\ ArxivIdAt(id, 1, {"v", "V"}) = Len(id)
           /\ Len(id) > 0
           /\ n \in 4..5
        THEN <<id>> ELSE <<>>

\* PAPER_PATTERNS.arxivUrl: /arxiv\.org\/(?:abs|pdf)\/(\d{4}\.\d{4,5}(?:v\d+)?)/
ArxivUrl(s) ==
    LET lits == <<<<"a", "r", "x", "i", "v", ".", "o", "r", "g", "/", "a", "b", "s", "/">>, <<"a",
        "r", "x", "i", "v", ".", "o", "r", "g", "/", "p", "d", "f", "/">>>>
        Hit(i, k) == /\ StartsAt(s, i, lits[k])
                     /\ ArxivIdAt(s, i + Len(lits[k]), {"v"}) > 0
        Group(from) == SubSeq(s, from, from + ArxivIdAt(s, from, {"v"}) - 1)
        After(i, k) == Group(i + Len(lits[k]))
        At(i) == After(i, Least({j \in 1..Len(lits) : Hit(i, j)}))
        Leftmost(places) == IF places = {} THEN <<>> ELSE <<At(Least(places))>>
    IN  Leftmost({i \in 1..Len(s) : \E k \in 1..Len(lits) : Hit(i, k)})

extractArxivId(s) == FirstMatch(<<Arxiv(s), ArxivUrl(s)>>)

ACADEMIC_DOMAINS ==
    <<<<"d", "o", "i", ".", "o", "r", "g">>, <<"d", "x", ".", "d", "o", "i", ".", "o", "r", "g">>,
        <<"p", "u", "b", "m", "e", "d", ".">>, <<"n", "c", "b", "i", ".", "n", "l", "m", ".", "n",
        "i", "h", ".", "g", "o", "v">>, <<"a", "r", "x", "i", "v", ".", "o", "r", "g">>,
      <<"r", "e", "s", "e", "a", "r", "c", "h", "g", "a", "t", "e", ".", "n", "e", "t">>, <<"a",
          "c", "a", "d", "e", "m", "i", "a", ".", "e", "d", "u">>, <<"s", "c", "i", "e", "n", "c",
          "e", "d", "i", "r", "e", "c", "t", ".", "c", "o", "m">>, <<"s", "p", "r", "i", "n", "g",
          "e", "r", ".", "c", "o", "m">>,
      <<"w", "i", "l", "e", "y", ".", "c", "o", "m">>, <<"n", "a", "t", "u", "r", "e", ".", "c",
          "o", "m">>, <<"s", "c", "i", "e", "n", "c", "e", ".", "o", "r", "g">>, <<"c", "e", "l",
          "l", ".", "c", "o", "m">>, <<"t", "a", "n", "d", "f", "o", "n", "l", "i", "n", "e", ".",
          "c", "o", "m">>,
      <<"s", "a", "g", "e", "p", "u", "b", ".", "c", "o", "m">>, <<"o", "u", "p", ".", "c", "o",
          "m">>, <<"b", "m", "j", ".", "c", "o", "m">>, <<"t", "h", "e", "l", "a", "n", "c", "e",
          "t", ".", "c", "o", "m">>, <<"n", "e", "j", "m", ".", "o", "r", "g">>>>

isAcademicUrl(s) ==
    \E k \in 1..Len(ACADEMIC_DOMAINS) : includes(toLowerCase(s), ACADEMIC_DOMAINS[k])

paperKeywords ==
    <<<<"s", "t", "u", "d", "y">>, <<"a", "n", "a", "l", "y", "s", "i", "s">>, <<"r", "e", "s",
        "e", "a", "r", "c", "h">>, <<"i", "n", "v", "e", "s", "t", "i", "g", "a", "t", "i", "o",
        "n">>, <<"r", "e", "v", "i", "e", "w">>,
      <<"s", "y", "s", "t", "e", "m", "a", "t", "i", "c">>, <<"m", "e", "t", "a", "-", "a", "n",
          "a", "l", "y", "s", "i", "s">>, <<"c", "l", "i", "n", "i", "c", "a", "l">>, <<"t", "r",
          "i", "a", "l">>, <<"r", "a", "n", "d", "o", "m", "i", "z", "e", "d">>,
      <<"e", "f", "f", "i", "c", "a", "c", "y">>, <<"e", "f", "f", "e", "c", "t">>, <<"t", "r",
          "e", "a", "t", "m", "e", "n", "t">>, <<"p", "a", "t", "i", "e", "n", "t">>, <<"c", "a",
          "s", "e">>,
      <<"c", "o", "m", "p", "a", "r", "i", "s", "o", "n">>, <<"e", "v", "a", "l", "u", "a", "t",
          "i", "o", "n">>, <<"a", "s", "s", "e", "s", "s", "m", "e", "n", "t">>, <<"o", "u", "t",
          "c", "o", "m", "e", "s">>,
      <<"i", "n", " ", "v", "i", "t", "r", "o">>, <<"i", "n", " ", "v", "i", "v", "o">>, <<"p",
          "r", "o", "s", "p", "e", "c", "t", "i", "v", "e">>, <<"r", "e", "t", "r", "o", "s", "p",
          "e", "c", "t", "i", "v", "e">>,
      <<"c", "o", "h", "o", "r", "t">>, <<"l", "o", "n", "g", "i", "t", "u", "d", "i", "n", "a",
          "l">>, <<"c", "r", "o", "s", "s", "-", "s", "e", "c", "t", "i", "o", "n", "a", "l">>,
      <<"d", "e", "n", "t", "a", "l">>, <<"o", "r", "a", "l">>, <<"p", "e", "r", "i", "o", "d",
          "o", "n", "t", "a", "l">>, <<"e", "n", "d", "o", "d", "o", "n", "t", "i", "c">>, <<"o",
          "r", "t", "h", "o", "d", "o", "n", "t", "i", "c">>,
      <<"i", "m", "p", "l", "a", "n", "t">>, <<"r", "e", "s", "t", "o", "r", "a", "t", "i", "o",
          "n">>, <<"c", "a", "r", "i", "e", "s">>, <<"p", "u", "l", "p">>, <<"r", "o", "o", "t",
          " ", "c", "a", "n", "a", "l">>>>

\* /et\s+al\.?/i.test(s)
HasEtAl(s) ==
    LET lower == toLowerCase(s)
    IN  \E i \in 1..Len(s) :
            /\ StartsAt(lower, i, <<"e", "t">>)
            /\ Run(lower, i + 2, IsSpace) >= 1
            /\ StartsAt(lower, i + 2 + Run(lower, i + 2, IsSpace), <<"a", "l">>)

getPaperTitleScore(input) ==
    LET trimmed == trim(input)
        wordCount == Len(split(trimmed))
        lowerInput == toLowerCase(trimmed)
        keywordMatches ==
            Cardinality({k \in 1..Len(paperKeywords) : includes(lowerInput, paperKeywords[k])})
        score == 15
                 + (IF wordCount >= 5 /\ wordCount <= 20 THEN 15 ELSE 0)
                 + (IF wordCount >= 8 /\ wordCount <= 15 THEN 10 ELSE 0)
                 + Min(keywordMatches * 10, 30)
                 + (IF includes(trimmed, <<":">>) THEN 10 ELSE 0)
                 + (IF HasEtAl(trimmed) THEN 20 ELSE 0)
    IN  Min(score, 75)

paperDetector ==
    [name |-> "paper", id |-> "paper", priority |-> 80, hasDetectAll |-> TRUE]

\* input.includes('://') ? 'url' : 'identifier'
UrlOrIdentifier(s) == IF includes(s, SchemeSeparator) THEN "url" ELSE "identifier"

\* Mutant: the PubMed id looked for before the DOI
paperDetectPmidFirst(s) ==
    LET Found(doi, pmid, arxivId, trimmed, score) ==
        IF pmid # <<>> THEN
            <<DetectionResult("paper", "definite", UrlOrIdentifier(s), pmid, <<"pmid">>)>>
        ELSE IF doi # <<>> THEN
            <<DetectionResult("paper", "definite", UrlOrIdentifier(s), doi, <<"doi">>)>>
        ELSE IF arxivId # <<>> THEN
            <<DetectionResult("paper", "definite", UrlOrIdentifier(s), arxivId, <<"arxiv">>)>>
        ELSE IF isAcademicUrl(s) THEN
            <<DetectionResult("paper", "high", "url", <<>>, <<"academic-url">>)>>
        ELSE IF Len(trimmed) >= 10 /\ ~includes(trimmed, SchemeSeparator) /\ score >= 35 THEN
            <<DetectionResult("paper", IF score >= 55 THEN "medium" ELSE "low",
                              "search-query", <<>>, <<>>)>>
        ELSE <<>>
    IN  Found(extractDoi(s), extractPmid(s), extractArxivId(s), trim(s),
              getPaperTitleScore(trim(s)))

\* paperDetector.detect: null is <<>>
paperDetect(s) ==
    LET Found(doi, pmid, arxivId, trimmed, score) ==
        IF doi # <<>> THEN
            <<DetectionResult("paper", "definite", UrlOrIdentifier(s), doi, <<"doi">>)>>
        ELSE IF pmid # <<>> THEN
            <<DetectionResult("paper", "definite", UrlOrIdentifier(s), pmid, <<"pmid">>)>>
        ELSE IF arxivId # <<>> THEN
            <<DetectionResult("paper", "definite", UrlOrIdentifier(s), arxivId, <<"arxiv">>)>>
        ELSE IF isAcademicUrl(s) THEN
            <<DetectionResult("paper", "high", "url", <<>>, <<"academic-url">>)>>
        ELSE IF Len(trimmed) >= 10 /\ ~includes(trimmed, SchemeSeparator) /\ score >= 35 THEN
            <<DetectionResult("paper", IF score >= 55 THEN "medium" ELSE "low",
                              "search-query", <<>>, <<>>)>>
        ELSE <<>>
    IN  Found(extractDoi(s), extractPmid(s), extractArxivId(s), trim(s),
              getPaperTitleScore(trim(s)))

\* Mutant: the academic-domain candidate added beside extracted identifiers
paperDetectAllAcademicAlways(s) ==
    LET Pushed(doi, pmid, arxivId, trimmed) ==
      LET
        identified ==
            (IF doi # <<>>
             THEN <<DetectionResult("paper", "definite", "identifier", doi, <<"doi">>)>>
             ELSE <<>>)
            \o (IF pmid # <<>>
                THEN <<DetectionResult("paper", "definite", "identifier", pmid, <<"pmid">>)>>
                ELSE <<>>)
            \o (IF arxivId # <<>>
                THEN <<DetectionResult("paper", "definite", "identifier", arxivId, <<"arxiv">>)>>
                ELSE <<>>)
        structured ==
            IF isAcademicUrl(s)
            THEN Append(identified, DetectionResult("paper", "high", "url", <<>>, <<>>))
            ELSE identified
      IN  IF Len(trimmed) >= 10 /\ ~includes(trimmed, SchemeSeparator) /\ Len(structured) = 0
          THEN Append(structured, DetectionResult("paper", "low", "search-query", <<>>, <<>>))
          ELSE structured
    IN  Pushed(extractDoi(s), extractPmid(s), extractArxivId(s), trim(s))

\* paperDetector.detectAll
paperDetectAll(s) ==
    LET Pushed(doi, pmid, arxivId, trimmed) ==
      LET
        identified ==
            (IF doi # <<>>
             THEN <<DetectionResult("paper", "definite", "identifier", doi, <<"doi">>)>>
             ELSE <<>>)
            \o (IF pmid # <<>>
                THEN <<DetectionResult("paper", "definite", "identifier", pmid, <<"pmid">>)>>
                ELSE <<>>)
            \o (IF arxivId # <<>>
                THEN <<DetectionResult("paper", "definite", "identifier", arxivId, <<"arxiv">>)>>
                ELSE <<>>)
        structured ==
            IF isAcademicUrl(s) /\ doi = <<>> /\ pmid = <<>> /\ arxivId = <<>>
            THEN Append(identified, DetectionResult("paper", "high", "url", <<>>, <<>>))
            ELSE identified
      IN  IF Len(trimmed) >= 10 /\ ~includes(trimmed, SchemeSeparator) /\ Len(structured) = 0
          THEN Append(structured, DetectionResult("paper", "low", "search-query", <<>>, <<>>))
          ELSE structured
    IN  Pushed(extractDoi(s), extractPmid(s), extractArxivId(s), trim(s))

----------------------------------------------------------------------------
(* Book detector *)

\* input.replace(/[-\s]/g, '')
cleanIsbn(s) == SelectSeq(s, LAMBDA c : c # "-" /\ ~IsSpace(c))

\* ISBN_PATTERNS.isbn13Strict: /^(978|979)\d{10}$/
IsIsbn13Strict(s) ==
    /\ Len(s) = 13
    /\ All(s, IsDigit)
    /\ (StartsAt(s, 1, <<"9", "7", "8">>) \/ StartsAt(s, 1, <<"9", "7", "9">>))

\* ISBN_PATTERNS.isbn10Strict: /^\d{9}[\dXx]$/
IsIsbn10Strict(s) ==
    /\ Len(s) = 10
    /\ All(SubSeq(s, 1, 9), IsDigit)
    /\ (IsDigit(s[10]) \/ s[10] \in {"X", "x"})

\* The sum of term(i) for i from 0 to n - 1, as the for loops compute it
LoopSum(term(_), n) ==
    LET sum[k \in 0..n] == IF k = 0 THEN 0 ELSE sum[k - 1] + term(k - 1)
    IN  sum[n]

\* Mutant: the sum is taken modulo 10
validateIsbn10Mod10(isbn) ==
    IF Len(isbn) # 10 THEN FALSE
    ELSE LET sum == LoopSum(LAMBDA i : parseInt(isbn[i + 1]) * (10 - i), 9)
             checkDigit == UpperOf(isbn[10])
             checkValue == IF checkDigit = "X" THEN 10 ELSE parseInt(checkDigit)
         IN  (sum + checkValue) % 10 = 0

\* isbn[i] of the program is the character at place i + 1
validateIsbn10(isbn) ==
    IF Len(isbn) # 10 THEN FALSE
    ELSE LET sum == LoopSum(LAMBDA i : parseInt(isbn[i + 1]) * (10 - i), 9)
             checkDigit == UpperOf(isbn[10])
             checkValue == IF checkDigit = "X" THEN 10 ELSE parseInt(checkDigit)
         IN  (sum + checkValue) % 11 = 0

\* Mutant: the weights 3 and 1 in place of 1 and 3
validateIsbn13Swapped(isbn) ==
    IF Len(isbn) # 13 THEN FALSE
    ELSE LET sum == LoopSum(LAMBDA i : parseInt(isbn[i + 1]) * (IF i % 2 = 0 THEN 3 ELSE 1), 12)
             checkDigit == (10 - (sum % 10)) % 10
         IN  checkDigit = parseInt(isbn[13])

validateIsbn13(isbn) ==
    IF Len(isbn) # 13 THEN FALSE
    ELSE LET sum == LoopSum(LAMBDA i : parseInt(isbn[i + 1]) * (IF i % 2 = 0 THEN 1 ELSE 3), 12)
             checkDigit == (10 - (sum % 10)) % 10
         IN  checkDigit = parseInt(isbn[13])

\* null is <<>>
detectIsbn(s) ==
    LET cleaned == cleanIsbn(s)
    IN  IF IsIsbn13Strict(cleaned) THEN
            <<[type |-> "isbn-13", value |-> cleaned, valid |-> validateIsbn13(cleaned)]>>
        ELSE IF IsIsbn10Strict(cleaned) THEN
            <<[type |-> "isbn-10", value |-> cleaned, valid |-> validateIsbn10(cleaned)]>>
        ELSE <<>>

\* GOOGLE_BOOKS_PATTERN
detectGoogleBooksUrl(s) ==
    MatchAfter(s, <<<<"b", "o", "o", "k", "s", ".", "g", "o", "o", "g", "l", "e", ".", "c", "o",
        "m", "/", "b", "o", "o", "k", "s", "?", "i", "d", "=">>>>, IsIdChar, 1, Len(s))

bookKeywords ==
    <<<<"e", "d", "i", "t", "i", "o", "n">>, <<"t", "e", "x", "t", "b", "o", "o", "k">>, <<"h",
        "a", "n", "d", "b", "o", "o", "k">>, <<"m", "a", "n", "u", "a", "l">>, <<"g", "u", "i",
        "d", "e">>,
      <<"i", "n", "t", "r", "o", "d", "u", "c", "t", "i", "o", "n">>, <<"p", "r", "i", "n", "c",
          "i", "p", "l", "e", "s">>, <<"f", "u", "n", "d", "a", "m", "e", "n", "t", "a", "l",
          "s">>, <<"c", "l", "i", "n", "i", "c", "a", "l">>,
      <<"a", "n", "a", "t", "o", "m", "y">>, <<"p", "h", "y", "s", "i", "o", "l", "o", "g", "y">>,
          <<"p", "a", "t", "h", "o", "l", "o", "g", "y">>, <<"s", "u", "r", "g", "e", "r", "y">>,
          <<"m", "e", "d", "i", "c", "i", "n", "e">>,
      <<"d", "e", "n", "t", "i", "s", "t", "r", "y">>, <<"d", "e", "n", "t", "a", "l">>, <<"o",
          "r", "t", "h", "o", "d", "o", "n", "t", "i", "c", "s">>, <<"e", "n", "d", "o", "d", "o",
          "n", "t", "i", "c", "s">>>>

IsQuote(c) == c \in {"\"", "'"}

\* /^["'].*["']$/.test(s)
IsQuoted(s) == Len(s) >= 2 /\ IsQuote(s[1]) /\ IsQuote(s[Len(s)])

\* /\bby\s+[A-Z]/i.test(s)
HasByAuthor(s) ==
    LET lower == toLowerCase(s)
    IN  \E i \in 1..Len(s) :
            /\ StartsAt(lower, i, <<"b", "y">>)
            /\ (i = 1 \/ ~IsWordChar(s[i - 1]))
            /\ Run(s, i + 2, IsSpace) >= 1
            /\ i + 2 + Run(s, i + 2, IsSpace) <= Len(s)
            /\ IsLetter(s[i + 2 + Run(s, i + 2, IsSpace)])

getBookTitleScore(input) ==
    LET trimmed == trim(input)
        words == split(trimmed)
        wordCount == Len(words)
        titleCaseWords ==
            Cardinality({k \in 1..Len(words) : words[k] # <<>> /\ IsUpper(words[k][1])})
        lowerInput == toLowerCase(trimmed)
        score == 20
                 + (IF wordCount >= 2 /\ wordCount <= 7 THEN 15 ELSE 0)
                 + (IF wordCount >= 3 /\ wordCount <= 5 THEN 10 ELSE 0)
                 + (IF 2 * titleCaseWords > Len(words) THEN 10 ELSE 0)
                 + (IF \E k \in 1..Len(bookKeywords) : includes(lowerInput, bookKeywords[k])
                    THEN 15 ELSE 0)
                 + (IF IsQuoted(trimmed) THEN 20 ELSE 0)
                 + (IF HasByAuthor(trimmed) THEN 15 ELSE 0)
    IN  Min(score, 80)

bookDetector ==
    [name |-> "book", id |-> "book", priority |-> 60, hasDetectAll |-> TRUE]

\* The result for a detected ISBN, the same in detect and detectAll
IsbnResult(isbnResult) ==
    DetectionResult("book", IF isbnResult.valid THEN "definite" ELSE "high",
                    "identifier", <<isbnResult.value>>, <<isbnResult.type>>)

GoogleBooksResult(googleBooksId) ==
    DetectionResult("book", "definite", "url", googleBooksId, <<"google-books-url">>)

\* bookDetector.detect: null is <<>>
bookDetect(s) ==
    LET Found(isbnResult, googleBooksId, trimmed, score) ==
        IF isbnResult # <<>> THEN <<IsbnResult(isbnResult[1])>>
        ELSE IF googleBooksId # <<>> THEN <<GoogleBooksResult(googleBooksId)>>
        ELSE IF Len(trimmed) >= 3 /\ ~includes(trimmed, SchemeSeparator) /\ score >= 35 THEN
            <<DetectionResult("book", IF score >= 60 THEN "medium" ELSE "low",
                              "search-query", <<>>, <<>>)>>
        ELSE <<>>
    IN  Found(detectIsbn(s), detectGoogleBooksUrl(s), trim(s), getBookTitleScore(trim(s)))

\* bookDetector.detectAll
bookDetectAll(s) ==
    LET Pushed(isbnResult, googleBooksId, trimmed) ==
        (IF isbnResult # <<>> THEN <<IsbnResult(isbnResult[1])>> ELSE <<>>)
        \o (IF googleBooksId # <<>> THEN <<GoogleBooksResult(googleBooksId)>> ELSE <<>>)
        \o (IF Len(trimmed) >= 3 /\ ~includes(trimmed, SchemeSeparator) /\ isbnResult = <<>>
            THEN <<DetectionResult("book", "low", "search-query", <<>>, <<>>)>>
            ELSE <<>>)
    IN  Pushed(detectIsbn(s), detectGoogleBooksUrl(s), trim(s))

----------------------------------------------------------------------------
(* Article detector *)

IsSlash(c) == c \in {"/", "\\"}

\* The characters of a host name; the inputs of the model have no port, no
\* user name and no percent-encoding in the host
IsHostChar(c) == IsIdChar(c) \/ c = "."

\* new URL(s): the scheme http or https in any case, any number of slashes,
\* a host that is not empty and ends at a slash, ? or # or at the end of the
\* input; leading and trailing spaces are removed.  ok is FALSE where the
\* constructor throws or the protocol is neither http: nor https:.
ParseHttpUrl(s) ==
    LET Scheme(lower) ==
            IF StartsAt(lower, 1, <<"h", "t", "t", "p", "s", ":">>) THEN 6
            ELSE IF StartsAt(lower, 1, <<"h", "t", "t", "p", ":">>) THEN 5 ELSE 0
        Parsed(t, lower, scheme, from, n) ==
            [ok |-> /\ scheme > 0
                    /\ n >= 1
                    /\ (from + n > Len(t) \/ IsSlash(t[from + n]) \/ t[from + n] \in {"?", "#"}),
             hostname |-> SubSeq(lower, from, from + n - 1)]
        Host(t, lower, scheme, from) == Parsed(t, lower, scheme, from, Run(t, from, IsHostChar))
        Slashes(t, lower, scheme) ==
            Host(t, lower, scheme, scheme + 1 + Run(t, scheme + 1, IsSlash))
        Lowered(t, lower) == Slashes(t, lower, Scheme(lower))
        Trimmed(t) == Lowered(t, toLowerCase(t))
    IN  Trimmed(trim(s))

isValidUrl(s) == ParseHttpUrl(s).ok

\* [a-zA-Z0-9]
IsAlnum(c) == IsLetter(c) \/ IsDigit(c)

\* (\.[a-zA-Z]{2,})+([\/\?#].*)?$ at place p of s
RECURSIVE DomainSuffixAt(_, _)
DomainSuffixAt(s, p) ==
    /\ p <= Len(s)
    /\ s[p] = "."
    /\ LET m == Run(s, p + 1, IsLetter)
       IN  /\ m >= 2
           /\ \/ p + m = Len(s)
              \/ s[p + 1 + m] \in {"/", "?", "#"}
              \/ DomainSuffixAt(s, p + 1 + m)

\* [a-zA-Z0-9]([a-zA-Z0-9-]*[a-zA-Z0-9])?(\.[a-zA-Z]{2,})+([\/\?#].*)?$ at
\* place p of s: the first label runs up to the first dot
DomainAt(s, p) ==
    LET n == Run(s, p, LAMBDA c : IsAlnum(c) \/ c = "-")
    IN  /\ n >= 1
        /\ IsAlnum(s[p])
        /\ IsAlnum(s[p + n - 1])
        /\ DomainSuffixAt(s, p + n)

\* looksLikeUrl: the pattern with and without its optional www.
looksLikeUrl(s) ==
    \/ StartsAt(s, 1, <<"w", "w", "w", ".">>) /\ DomainAt(s, 5)
    \/ DomainAt(s, 1)

\* String.prototype.replace(lit, ''): the first occurrence removed
RemoveFirst(s, lit) ==
    LET places == {i \in 1..Len(s) : StartsAt(s, i, lit)}
    IN  IF places = {} THEN s
        ELSE SubSeq(s, 1, Least(places) - 1) \o From(s, Least(places) + Len(lit))

\* extractDomain: '' where the constructor throws
extractDomain(url) ==
    LET Hostname(parsed) ==
            IF parsed.ok THEN RemoveFirst(parsed.hostname, <<"w", "w", "w", ".">>) ELSE <<>>
    IN  Hostname(ParseHttpUrl(IF StartsAt(url, 1, <<"h", "t", "t", "p">>) THEN url
                              ELSE <<"h", "t", "t", "p", "s", ":", "/", "/">> \o url))

KNOWN_ARTICLE_DOMAINS ==
    <<<<"m", "e", "d", "i", "u", "m", ".", "c", "o", "m">>, <<"d", "e", "v", ".", "t", "o">>,
        <<"h", "a", "s", "h", "n", "o", "d", "e", ".", "d", "e", "v">>, <<"s", "u", "b", "s", "t",
        "a", "c", "k", ".", "c", "o", "m">>, <<"b", "l", "o", "g", ".">>,
      <<"n", "e", "w", "s", ".">>, <<"a", "r", "t", "i", "c", "l", "e", ".">>, <<"p", "o", "s",
          "t", ".">>, <<"w", "i", "k", "i", "p", "e", "d", "i", "a", ".", "o", "r", "g">>, <<"d",
          "o", "c", "s", ".">>>>

articleDetector ==
    [name |-> "article", id |-> "article", priority |-> 10, hasDetectAll |-> TRUE]

\* articleDetector.detect: null is <<>>
\* KNOWN_ARTICLE_DOMAINS.some(pattern => domain.includes(pattern))
IsKnownArticleDomain(domain) ==
    \E k \in 1..Len(KNOWN_ARTICLE_DOMAINS) : includes(domain, KNOWN_ARTICLE_DOMAINS[k])

\* The result of the Article detector: it has no extractedId and no
\* matchedPattern, and carries context.metadata
ArticleResult(confidence, metadata) ==
    [pluginId |-> "article", confidence |-> confidence, inputType |-> "url",
     extractedId |-> <<>>, matchedPattern |-> <<>>, metadata |-> metadata]

\* articleDetector.detect: null is <<>>
articleDetect(s) ==
    LET Known(domain, isKnownArticleDomain) ==
            ArticleResult(IF isKnownArticleDomain THEN "high" ELSE "medium",
                          [domain |-> domain, isKnownArticleDomain |-> isKnownArticleDomain])
        Full(domain) == Known(domain, IsKnownArticleDomain(domain))
    IN  IF isValidUrl(s) THEN <<Full(extractDomain(s))>>
        ELSE IF looksLikeUrl(s) THEN
            <<ArticleResult("medium", [domain |-> extractDomain(s), needsProtocol |-> TRUE])>>
        ELSE <<>>

\* articleDetector.detectAll
articleDetectAll(s) == articleDetect(s)

\* The detectors of initializeDetectors, in the order it registers them
BuiltinDetectors == <<youtubeDetector, paperDetector, bookDetector, articleDetector>>

\* detector.detect(s) of the built-in detector of that name
BuiltinDetect(name, s) ==
    IF name = "youtube" THEN youtubeDetect(s)
    ELSE IF name = "paper" THEN paperDetect(s)
    ELSE IF name = "book" THEN bookDetect(s)
    ELSE articleDetect(s)

\* detector.detectAll(s) of the built-in detector of that name
BuiltinDetectAll(name, s) ==
    IF name = "youtube" THEN youtubeDetectAll(s)
    ELSE IF name = "paper" THEN paperDetectAll(s)
    ELSE IF name = "book" THEN bookDetectAll(s)
    ELSE articleDetectAll(s)

\* The built-in detector d as the object that is registered: it carries its
\* two methods, as functions on the strings it can be called with
DetectorObject(d, strings) ==
    [name |-> d.name, id |-> d.id, priority |-> d.priority,
     hasDetectAll |-> d.hasDetectAll,
     detect |-> [s \in strings |-> BuiltinDetect(d.name, s)],
     detectAll |-> [s \in strings |-> BuiltinDetectAll(d.name, s)]]

\* The objects initializeDetectors registers, in its order
BuiltinObjects(strings) ==
    [k \in 1..Len(BuiltinDetectors) |-> DetectorObject(BuiltinDetectors[k], strings)]

----------------------------------------------------------------------------
(* Detectors: objects implementing ResourceDetector.  The engine is generic *)
(* in its detectors; these cover a detector without detectAll, two objects  *)
(* with one id, equal and different priorities, detectors that answer the   *)
(* empty string, and detectAll lists that are not sorted by confidence.     *)

DetectorA1 == [name |-> "A1", id |-> "a", priority |-> 1, hasDetectAll |-> FALSE]
DetectorA2 == [name |-> "A2", id |-> "a", priority |-> 2, hasDetectAll |-> TRUE]
DetectorB  == [name |-> "B",  id |-> "b", priority |-> 1, hasDetectAll |-> TRUE]

DetectorPool == {DetectorA1, DetectorA2, DetectorB}

DetectorIds == {d.id : d \in DetectorPool}

NoDetector == "none"

\* A DetectionResult.  The fields by and idx are not fields of the program's
\* object: they record which detector object made the result and at which
\* place of the list it returned, as the name of a detector records which
\* object it is.
Result(d, k, confidence, inputType, s) ==
    [pluginId |-> d.id, confidence |-> confidence, inputType |-> inputType,
     extractedId |-> s, by |-> d.name, idx |-> k]

\* detector.detectAll(s), for a detector that has the method: the method of
\* an object that carries its methods, and else of the detector of that name
DetectorDetectAll(d, s) ==
    IF "detectAll" \in DOMAIN d THEN d.detectAll[s]
    ELSE IF d.name = "A2" THEN
        IF Len(s) = 0 THEN <<Result(d, 1, "low", "search-query", s)>>
        ELSE <<Result(d, 1, "medium", "search-query", s),
               Result(d, 2, "definite", "identifier", s)>>
    ELSE IF d.name = "B" THEN
        IF Len(s) = 1 THEN <<Result(d, 1, "high", "url", s),
                             Result(d, 2, "low", "search-query", s),
                             Result(d, 3, "high", "identifier", s)>>
        ELSE IF Len(s) = 2 THEN <<Result(d, 1, "medium", "url", s)>>
        ELSE <<>>
    ELSE <<>>

\* detector.detect(s): null is <<>>
DetectorDetect(d, s) ==
    IF "detect" \in DOMAIN d THEN d.detect[s]
    ELSE IF d.name = "A1" THEN
        IF Len(s) = 2 THEN <<>>
        ELSE IF Len(s) = 1 THEN <<Result(d, 1, "high", "identifier", s)>>
        ELSE <<Result(d, 1, "low", "search-query", s)>>
    ELSE IF d.name = "A2" THEN
        IF Len(s) = 0 THEN <<>>
        ELSE <<Result(d, 1, "definite", "identifier", s)>>
    ELSE
        IF Len(s) = 1 THEN <<Result(d, 1, "high", "url", s)>>
        ELSE IF Len(s) = 2 THEN <<Result(d, 1, "medium", "url", s)>>
        ELSE <<>>

Invocation(d, method, s) == [by |-> d.name, method |-> method, input |-> s]

----------------------------------------------------------------------------
(* Map<string, ResourceDetector>, as the sequence of its values in           *)
(* insertion order                                                           *)

MapHas(m, id) == \E i \in 1..Len(m) : m[i].id = id

\* Map.prototype.set: a present key keeps its place and gets the new value,
\* a new key is added at the end
MapSet(m, d) ==
    IF MapHas(m, d.id)
    THEN [i \in 1..Len(m) |-> IF m[i].id = d.id THEN d ELSE m[i]]
    ELSE Append(m, d)

\* Map.prototype.delete
MapDelete(m, id) == SelectSeq(m, LAMBDA e : e.id # id)

\* Map.prototype.get: undefined is <<>>
MapGet(m, id) == SelectSeq(m, LAMBDA e : e.id = id)

----------------------------------------------------------------------------
(* Array.prototype.sort with a comparator is stable: elements the           *)
(* comparator orders come out in that order, the others keep their order.   *)
(* Both comparators of the engine order by a number, descending.            *)

\* Mutant: the comparator a.priority - b.priority, ascending
RECURSIVE InsertByPriorityAscending(_, _)
InsertByPriorityAscending(sorted, d) ==
    IF sorted = <<>> THEN <<d>>
    ELSE IF d.priority - Head(sorted).priority >= 0
         THEN <<Head(sorted)>> \o InsertByPriorityAscending(Tail(sorted), d)
         ELSE <<d>> \o sorted

RECURSIVE InsertByPriority(_, _)
InsertByPriority(sorted, d) ==
    IF sorted = <<>> THEN <<d>>
    ELSE IF Head(sorted).priority - d.priority >= 0
         THEN <<Head(sorted)>> \o InsertByPriority(Tail(sorted), d)
         ELSE <<d>> \o sorted

RECURSIVE SortByPriority(_)
SortByPriority(arr) ==
    IF arr = <<>> THEN <<>>
    ELSE InsertByPriority(SortByPriority(SubSeq(arr, 1, Len(arr) - 1)),
                          arr[Len(arr)])

\* Mutant: the comparator scoreA - scoreB, ascending
RECURSIVE InsertByScoreAscending(_, _)
InsertByScoreAscending(sorted, r) ==
    IF sorted = <<>> THEN <<r>>
    ELSE IF CONFIDENCE_SCORES[r.confidence]
              - CONFIDENCE_SCORES[Head(sorted).confidence] >= 0
         THEN <<Head(sorted)>> \o InsertByScoreAscending(Tail(sorted), r)
         ELSE <<r>> \o sorted

RECURSIVE InsertByScore(_, _)
InsertByScore(sorted, r) ==
    IF sorted = <<>> THEN <<r>>
    ELSE IF CONFIDENCE_SCORES[Head(sorted).confidence]
              - CONFIDENCE_SCORES[r.confidence] >= 0
         THEN <<Head(sorted)>> \o InsertByScore(Tail(sorted), r)
         ELSE <<r>> \o sorted

RECURSIVE SortByScore(_)
SortByScore(arr) ==
    IF arr = <<>> THEN <<>>
    ELSE InsertByScore(SortByScore(SubSeq(arr, 1, Len(arr) - 1)),
                       arr[Len(arr)])

\* Mutant: the last elements kept, not the first
sliceEnd(arr, end) ==
    LET n == Len(arr)
        k == IF end < 0 THEN (IF n + end > 0 THEN n + end ELSE 0)
             ELSE (IF end < n THEN end ELSE n)
    IN  SubSeq(arr, n - k + 1, n)

\* Array.prototype.slice(0, end): a negative end counts from the end
slice(arr, end) ==
    LET n == Len(arr)
        k == IF end < 0 THEN (IF n + end > 0 THEN n + end ELSE 0)
             ELSE (IF end < n THEN end ELSE n)
    IN  SubSeq(arr, 1, k)

----------------------------------------------------------------------------
(* DetectionEngine: the pure part of each method *)

\* constructor(config = {})
constructor(partial) == Spread(DEFAULT_CONFIG, partial)

\* Mutant: the detectors kept in an array, register pushes
registerPush(m, d) == Append(m, d)

register(m, d) == MapSet(m, d)

unregister(m, id) == MapDelete(m, id)

\* Array.from(this.detectors.values()): a new array
getAll(m) == m

RECURSIVE SortByPriorityAscending(_)
SortByPriorityAscending(arr) ==
    IF arr = <<>> THEN <<>>
    ELSE InsertByPriorityAscending(
             SortByPriorityAscending(SubSeq(arr, 1, Len(arr) - 1)),
             arr[Len(arr)])

\* Mutant: the detectors sorted by priority, lowest first
getSortedDetectorsAscending(m) == SortByPriorityAscending(m)

getSortedDetectors(m) == SortByPriority(getAll(m))

\* Mutant: results kept across calls of detectAll instead of created per call
StaleResults == IF call.op = "detectAll" THEN ret ELSE <<>>

\* const results: DetectionResult[] = []
NewResults == <<>>

\* The loop over the sorted detectors: the results pushed and the detector
\* methods invoked, from the state acc = [results, invoked]
RECURSIVE Collect(_, _, _)
Collect(sorted, s, acc) ==
    IF sorted = <<>> THEN acc
    ELSE LET d == Head(sorted)
             found == IF d.hasDetectAll THEN DetectorDetectAll(d, s)
                      ELSE DetectorDetect(d, s)
             method == IF d.hasDetectAll THEN "detectAll" ELSE "detect"
         IN  Collect(Tail(sorted), s,
                     [results |-> acc.results \o found,
                      invoked |-> Append(acc.invoked, Invocation(d, method, s))])

\* Mutant: the threshold of the default configuration instead of this.config
FilterByDefaultMin(results, cfg) ==
    SelectSeq(results,
              LAMBDA r : CONFIDENCE_SCORES[r.confidence]
                           >= CONFIDENCE_SCORES[DEFAULT_CONFIG.minConfidence])

\* .filter(score >= minScore)
FilterByMin(results, cfg) ==
    SelectSeq(results,
              LAMBDA r : CONFIDENCE_SCORES[r.confidence]
                           >= CONFIDENCE_SCORES[cfg.minConfidence])

\* Mutant: one more than maxSuggestions kept
RankOffByOne(results, cfg) ==
    slice(SelectSeq(SortByScore(results),
                    LAMBDA r : CONFIDENCE_SCORES[r.confidence]
                                 >= CONFIDENCE_SCORES[cfg.minConfidence]),
          cfg.maxSuggestions + 1)

\* .sort(...).filter(...).slice(0, this.config.maxSuggestions)
Rank(results, cfg) ==
    slice(FilterByMin(SortByScore(results), cfg), cfg.maxSuggestions)

\* Mutant: no return for an input that is empty after trim
detectAllUnguarded(m, cfg, input) ==
    LET got == Collect(SortByPriority(m), trim(input),
                       [results |-> <<>>, invoked |-> <<>>])
    IN  [out |-> slice(SelectSeq(SortByScore(got.results),
                                 LAMBDA r : CONFIDENCE_SCORES[r.confidence]
                                   >= CONFIDENCE_SCORES[cfg.minConfidence]),
                       cfg.maxSuggestions),
         invoked |-> got.invoked]

\* detectAll(input): [out: the list returned, invoked: the detector calls]
detectAll(m, cfg, input) ==
    IF trim(input) = <<>> THEN [out |-> <<>>, invoked |-> <<>>]
    ELSE LET got == Collect(getSortedDetectors(m), trim(input),
                            [results |-> NewResults, invoked |-> <<>>])
         IN  [out |-> Rank(got.results, cfg), invoked |-> got.invoked]

\* Mutant: the last element of detectAll's list instead of the first
detectLast(m, cfg, input) ==
    IF trim(input) = <<>> THEN [out |-> <<>>, invoked |-> <<>>]
    ELSE LET all == detectAll(m, cfg, input)
         IN  [out |-> IF Len(all.out) > 0 THEN <<all.out[Len(all.out)]>>
                      ELSE <<>>,
              invoked |-> all.invoked]

\* detect(input)
detect(m, cfg, input) ==
    IF trim(input) = <<>> THEN [out |-> <<>>, invoked |-> <<>>]
    ELSE LET all == detectAll(m, cfg, input)
         IN  [out |-> IF Len(all.out) > 0 THEN <<all.out[1]>> ELSE <<>>,
              invoked |-> all.invoked]

\* Mutant: the detector is given the input as it came, not trimmed
detectForUntrimmed(m, input, pluginId) ==
    LET detector == MapGet(m, pluginId)
    IN  IF detector = <<>> THEN [out |-> <<>>, invoked |-> <<>>]
        ELSE [out |-> DetectorDetect(detector[1], input),
              invoked |-> <<Invocation(detector[1], "detect", input)>>]

\* detectFor(input, pluginId)
detectFor(m, input, pluginId) ==
    LET detector == MapGet(m, pluginId)
    IN  IF detector = <<>> THEN [out |-> <<>>, invoked |-> <<>>]
        ELSE [out |-> DetectorDetect(detector[1], trim(input)),
              invoked |-> <<Invocation(detector[1], "detect", trim(input))>>]

getConfig(cfg) == cfg

\* Mutant: the partial merged over the defaults instead of this.config
setConfigOverDefaults(cfg, partial) == Spread(DEFAULT_CONFIG, partial)

setConfig(cfg, partial) == Spread(cfg, partial)

----------------------------------------------------------------------------
(* The engine as a state machine: one action per method call *)

\* What detectAll returns, per input, for registry m and configuration cfg
Baseline(m, cfg) == [input \in Inputs |-> detectAll(m, cfg, input).out]

\* fresh: the baseline was taken by the latest call, a detectAll
NoBaseline == [set |-> FALSE, fresh |-> FALSE, of |-> <<>>]

\* A query keeps the baseline, and takes it if none was taken since the last write
KeepBaseline(op) ==
    baseline' = IF baseline.set THEN [baseline EXCEPT !.fresh = FALSE]
                ELSE [set |-> TRUE, fresh |-> (op = "detectAll"),
                      of |-> Baseline(detectors, config)]

Call(op, input, id, name, partial) ==
    [op |-> op, input |-> input, id |-> id, detector |-> name, arg |-> partial]

WithoutId(seq, id) == SelectSeq(seq, LAMBDA e : e # id)

\* new DetectionEngine(partial)
New(partial) ==
    /\ detectors = <<>>
    /\ config = constructor(partial)
    /\ call = Call("new", <<>>, "", NoDetector, partial)
    /\ ret = <<>>
    /\ invoked = <<>>
    /\ regSeq = <<>>
    /\ lastOp = [id \in DetectorIds |-> NoDetector]
    /\ baseline = NoBaseline
    /\ EngineAlone

Init == \E partial \in RankingPartials : New(partial)

Register(d) ==
    /\ detectors' = register(detectors, d)
    /\ call' = Call("register", <<>>, d.id, d.name, EmptyPartial)
    /\ ret' = <<>>
    /\ invoked' = <<>>
    /\ regSeq' = Append(WithoutId(regSeq, d.id), d.id)
    /\ lastOp' = [lastOp EXCEPT ![d.id] = d.name]
    /\ baseline' = NoBaseline
    /\ UNCHANGED <<config, hook, component, db>>

Unregister(id) ==
    /\ detectors' = unregister(detectors, id)
    /\ call' = Call("unregister", <<>>, id, NoDetector, EmptyPartial)
    /\ ret' = <<>>
    /\ invoked' = <<>>
    /\ regSeq' = WithoutId(regSeq, id)
    /\ lastOp' = [lastOp EXCEPT ![id] = NoDetector]
    /\ baseline' = NoBaseline
    /\ UNCHANGED <<config, hook, component, db>>

GetAll ==
    /\ call' = Call("getAll", <<>>, "", NoDetector, EmptyPartial)
    /\ ret' = getAll(detectors)
    /\ invoked' = <<>>
    /\ KeepBaseline("getAll")
    /\ UNCHANGED <<detectors, config, regSeq, lastOp, hook, component, db>>

Detect(input) ==
    LET r == detect(detectors, config, input)
    IN  /\ call' = Call("detect", input, "", NoDetector, EmptyPartial)
        /\ ret' = r.out
        /\ invoked' = r.invoked
        /\ KeepBaseline("detect")
    /\ UNCHANGED <<detectors, config, regSeq, lastOp, hook, component, db>>

\* Mutant: the registry itself sorted in place by the query
DetectAllSortingRegistry(input) ==
    LET r == detectAll(detectors, config, input)
    IN  /\ call' = Call("detectAll", input, "", NoDetector, EmptyPartial)
        /\ ret' = r.out
        /\ invoked' = r.invoked
        /\ KeepBaseline("detectAll")
        /\ detectors' = getSortedDetectors(detectors)
    /\ UNCHANGED <<config, regSeq, lastOp, hook, component, db>>

DetectAll(input) ==
    LET r == detectAll(detectors, config, input)
    IN  /\ call' = Call("detectAll", input, "", NoDetector, EmptyPartial)
        /\ ret' = r.out
        /\ invoked' = r.invoked
        /\ KeepBaseline("detectAll")
    /\ UNCHANGED <<detectors, config, regSeq, lastOp, hook, component, db>>

DetectFor(input, pluginId) ==
    LET r == detectFor(detectors, input, pluginId)
    IN  /\ call' = Call("detectFor", input, pluginId, NoDetector, EmptyPartial)
        /\ ret' = r.out
        /\ invoked' = r.invoked
        /\ KeepBaseline("detectFor")
    /\ UNCHANGED <<detectors, config, regSeq, lastOp, hook, component, db>>

GetConfig ==
    /\ call' = Call("getConfig", <<>>, "", NoDetector, EmptyPartial)
    /\ ret' = <<getConfig(config)>>
    /\ invoked' = <<>>
    /\ KeepBaseline("getConfig")
    /\ UNCHANGED <<detectors, config, regSeq, lastOp, hook, component, db>>

SetConfig(partial) ==
    /\ config' = setConfig(config, partial)
    /\ call' = Call("setConfig", <<>>, "", NoDetector, partial)
    /\ ret' = <<>>
    /\ invoked' = <<>>
    /\ baseline' = NoBaseline
    /\ UNCHANGED <<detectors, regSeq, lastOp, hook, component, db>>

Next ==
    \/ \E d \in DetectorPool : Register(d)
    \/ \E id \in DetectorIds : Unregister(id)
    \/ GetAll
    \/ \E input \in Inputs : Detect(input)
    \/ \E input \in Inputs : DetectAll(input)
    \/ \E input \in Inputs, pluginId \in DetectorIds : DetectFor(input, pluginId)
    \/ GetConfig
    \/ \E partial \in SinglePartials : SetConfig(partial)

Spec == Init /\ [][Next]_vars

\* The configuration alone: the constructor and setConfig with every
\* partial, and getConfig
InitConfig == \E partial \in Partials : New(partial)

NextConfig ==
    \/ GetConfig
    \/ \E partial \in Partials : SetConfig(partial)

ConfigSpec == InitConfig /\ [][NextConfig]_vars

----------------------------------------------------------------------------
(* The inputs of the built-in detectors.  A detector is a function of its   *)
(* input alone, so each behaviour is given one input and applies the        *)
(* detectors to it.                                                         *)

\* The longest run of filler words in front of a phrase
MaxWords == 8

RECURSIVE Repeat(_, _)
Repeat(s, n) == IF n = 0 THEN <<>> ELSE s \o Repeat(s, n - 1)

Concat(A, B) == {a \o b : a \in A, b \in B}

Schemes == {<<>>, <<"h", "t", "t", "p", "s", ":", "/", "/">>, <<"h", "t", "t", "p", ":", "/", "/",
    "w", "w", "w", ".">>}

\* Video ids of 11 characters, and strings of 10 and of 12 characters
VideoIdLike == {<<"d", "Q", "w", "4", "w", "9", "W", "g", "X", "c", "Q">>, <<"a", "_", "b", "-",
    "c", "_", "d", "-", "e", "_", "f">>, <<"d", "Q", "w", "4", "w", "9", "W", "g", "X", "c">>,
    <<"d", "Q", "w", "4", "w", "9", "W", "g", "X", "c", "Q", "0">>}

YouTubePaths ==
    Concat({<<"/", "w", "a", "t", "c", "h", "?", "v", "=">>, <<"/">>, <<"/", "e", "m", "b", "e",
        "d", "/">>, <<"/", "v", "/">>, <<"/", "s", "h", "o", "r", "t", "s", "/">>}, VideoIdLike)
    \cup {<<>>, <<"/">>, <<"/", "p", "l", "a", "y", "l", "i", "s", "t", "?", "l", "i", "s", "t",
        "=", "P", "L", "1", "-", "a", "_", "b">>, <<"/", "w", "a", "t", "c", "h", "?", "a", "=",
        "1", "&", "l", "i", "s", "t", "=", "P", "L", "1">>, <<"/", "@", "c", "h", "a", "n">>,
          <<"/", "c", "h", "a", "n", "n", "e", "l", "/", "U", "C", "1">>, <<"/", "c", "/", "n",
              "a", "m", "e">>, <<"/", "r", "e", "s", "u", "l", "t", "s", "?", "q", "=", "a">>}

YouTubeUrls ==
    Concat(Concat(Schemes, {<<"y", "o", "u", "t", "u", "b", "e", ".", "c", "o", "m">>, <<"y", "o",
        "u", "t", "u", ".", "b", "e">>, <<"e", "x", "a", "m", "p", "l", "e", ".", "c", "o", "m">>,
        <<"d", "o", "i", ".", "o", "r", "g">>}),
           YouTubePaths)

\* Strings of 11 characters of a video id that are also a PubMed id or an
\* ISBN-10, and one that is neither
BareIds ==
    VideoIdLike \cup {<<"P", "M", "I", "D", "1", "2", "3", "4", "5", "6", "7">>, <<"0", "-", "3",
        "0", "6", "4", "0", "6", "1", "5", "2">>, <<"0", "-", "3", "0", "6", "4", "0", "6", "1",
        "5", "3">>, <<"1", "2", "3", "4", "5", "6", "7", "8", "9", "0", "1">>}

\* Inputs in which a video URL stands beside a DOI or a Google Books id
TiedUrls ==
    {<<"h", "t", "t", "p", "s", ":", "/", "/", "d", "o", "i", ".", "o", "r", "g", "/", "1", "0",
        ".", "1", "0", "0", "0", "/", "1", "8", "2", "?", "u", "=", "y", "o", "u", "t", "u", ".",
        "b", "e", "/", "d", "Q", "w", "4", "w", "9", "W", "g", "X", "c", "Q">>,
     <<"h", "t", "t", "p", "s", ":", "/", "/", "w", "w", "w", ".", "y", "o", "u", "t", "u", "b",
         "e", ".", "c", "o", "m", "/", "w", "a", "t", "c", "h", "?", "v", "=", "d", "Q", "w", "4",
         "w", "9", "W", "g", "X", "c", "Q", "&", "u", "=", "b", "o", "o", "k", "s", ".", "g", "o",
         "o", "g", "l", "e", ".", "c", "o", "m", "/", "b", "o", "o", "k", "s", "?", "i", "d", "=",
         "a", "b", "c">>}

\* Inputs that match the patterns of several kinds
ListedUrls ==
    {<<"h", "t", "t", "p", "s", ":", "/", "/", "w", "w", "w", ".", "y", "o", "u", "t", "u", "b",
        "e", ".", "c", "o", "m", "/", "w", "a", "t", "c", "h", "?", "v", "=", "d", "Q", "w", "4",
        "w", "9", "W", "g", "X", "c", "Q", "&", "l", "i", "s", "t", "=", "P", "L", "1">>,
     <<"h", "t", "t", "p", "s", ":", "/", "/", "y", "o", "u", "t", "u", ".", "b", "e", "/", "d",
         "Q", "w", "4", "w", "9", "W", "g", "X", "c", "Q", "?", "l", "i", "s", "t", "=", "P", "L",
         "1">>,
     <<"y", "o", "u", "t", "u", "b", "e", ".", "c", "o", "m", "/", "s", "h", "o", "r", "t", "s",
         "/", "d", "Q", "w", "4", "w", "9", "W", "g", "X", "c", "Q", "?", "l", "i", "s", "t", "=",
         "P", "L", "1">>,
     <<"h", "t", "t", "p", "s", ":", "/", "/", "w", "w", "w", ".", "y", "o", "u", "t", "u", "b",
         "e", ".", "c", "o", "m", "/", "@", "c", "h", "a", "n", "?", "l", "i", "s", "t", "=", "P",
         "L", "1">>,
     <<"h", "t", "t", "p", "s", ":", "/", "/", "w", "w", "w", ".", "y", "o", "u", "t", "u", "b",
         "e", ".", "c", "o", "m", "/", "e", "m", "b", "e", "d", "/", "d", "Q", "w", "4", "w", "9",
         "W", "g", "X", "c", "Q", "?", "u", "=", "y", "o", "u", "t", "u", ".", "b", "e", "/", "a",
         "_", "b", "-", "c", "_", "d", "-", "e", "_", "f">>,
     <<"h", "t", "t", "p", "s", ":", "/", "/", "w", "w", "w", ".", "y", "o", "u", "t", "u", "b",
         "e", ".", "c", "o", "m", "/", "p", "l", "a", "y", "l", "i", "s", "t", "?", "l", "i", "s",
         "t", "=", "P", "L", "1", "&", "u", "=", "y", "o", "u", "t", "u", "b", "e", ".", "c", "o",
         "m", "/", "w", "a", "t", "c", "h", "?", "v", "=", "d", "Q", "w", "4", "w", "9", "W", "g",
         "X", "c", "Q">>}

YouTubeInputs == YouTubeUrls \cup BareIds \cup TiedUrls \cup ListedUrls

PaperIdentifiers ==
    {<<"1", "0", ".", "1", "0", "0", "0", "/", "1", "8", "2">>, <<"1", "0", ".", "1", "0", "0",
        "0", ".", "1", "2", "/", "a", ".", "b">>, <<"1", "0", ".", "1", "0", "0", "/", "1", "8",
        "2">>, <<"1", "0", ".", "1", "0", "0", "0", "/">>, <<"1", "0", ".", "1", "0", "0", "0",
        "/", "a", " ", "b">>,
     <<"1", "0", ".", "1", "0", "0", "0", ".", "x", "/", "1">>, <<"1", "2", "3", "4", "5", "6",
         "7">>, <<"1", "2", "3", "4", "5", "6", "7", "8">>, <<"1", "2", "3", "4", "5", "6">>,
         <<"1", "2", "3", "4", "5", "6", "7", "8", "9">>,
     <<"P", "M", "I", "D", ":", "1", "2", "3", "4", "5", "6", "7">>, <<"p", "m", "i", "d", " ",
         "1", "2", "3", "4", "5", "6", "7", "8">>, <<"P", "M", "I", "D", "1", "2", "3", "4", "5",
         "6", "7">>, <<"P", "M", "I", "D", ":", "1", "2", "3">>, <<"P", "M", "I", "D", "-", "1",
         "2", "3", "4", "5", "6", "7">>,
     <<"2", "3", "0", "1", ".", "1", "2", "3", "4", "5">>, <<"a", "r", "X", "i", "v", ":", "2",
         "3", "0", "1", ".", "1", "2", "3", "4", "v", "2">>, <<"A", "R", "X", "I", "V", ":", "2",
         "3", "0", "1", ".", "1", "2", "3", "4", "5", "V", "3">>, <<"2", "3", "0", "1", ".", "1",
         "2", "3">>,
     <<"2", "3", "0", "1", ".", "1", "2", "3", "4", "5", "6">>, <<"2", "3", "0", "1", ".", "1",
         "2", "3", "4", "v">>, <<"2", "3", "0", "1", "1", ".", "1", "2", "3", "4">>}

PaperPaths ==
    {<<"d", "o", "i", ".", "o", "r", "g", "/", "1", "0", ".", "1", "0", "0", "0", "/", "1", "8",
        "2">>, <<"d", "x", ".", "d", "o", "i", ".", "o", "r", "g", "/", "1", "0", ".", "1", "0",
        "0", "0", "/", "1", "8", "2">>, <<"d", "o", "i", ".", "o", "r", "g", "/">>, <<"d", "o",
        "i", ".", "o", "r", "g">>,
     <<"p", "u", "b", "m", "e", "d", ".", "n", "c", "b", "i", ".", "n", "l", "m", ".", "n", "i",
         "h", ".", "g", "o", "v", "/", "1", "2", "3", "4", "5", "6", "7", "/">>, <<"n", "c", "b",
         "i", ".", "n", "l", "m", ".", "n", "i", "h", ".", "g", "o", "v", "/", "p", "u", "b", "m",
         "e", "d", "/", "1", "2">>,
     <<"p", "u", "b", "m", "e", "d", ".", "n", "c", "b", "i", ".", "n", "l", "m", ".", "n", "i",
         "h", ".", "g", "o", "v", "/">>, <<"n", "c", "b", "i", ".", "n", "l", "m", ".", "n", "i",
         "h", ".", "g", "o", "v", "/", "p", "m", "c", "/", "a", "r", "t", "i", "c", "l", "e", "s",
         "/", "P", "M", "C", "1", "2", "3", "4", "5", "6">>,
     <<"a", "r", "x", "i", "v", ".", "o", "r", "g", "/", "a", "b", "s", "/", "2", "3", "0", "1",
         ".", "1", "2", "3", "4", "5">>, <<"a", "r", "x", "i", "v", ".", "o", "r", "g", "/", "p",
         "d", "f", "/", "2", "3", "0", "1", ".", "1", "2", "3", "4", "5", "v", "2">>,
     <<"a", "r", "x", "i", "v", ".", "o", "r", "g", "/", "a", "b", "s", "/", "2", "3", "0", "1",
         ".", "1", "2", "3", "4", "5", "6">>, <<"a", "r", "x", "i", "v", ".", "o", "r", "g", "/",
         "l", "i", "s", "t", "/", "c", "s">>, <<"n", "a", "t", "u", "r", "e", ".", "c", "o", "m",
         "/", "a", "r", "t", "i", "c", "l", "e", "s", "/", "x">>,
     <<"N", "A", "T", "U", "R", "E", ".", "c", "o", "m">>, <<"e", "x", "a", "m", "p", "l", "e",
         ".", "c", "o", "m", "/", "a", "-", "l", "o", "n", "g", "-", "p", "a", "t", "h">>,
     <<"d", "o", "i", ".", "o", "r", "g", "/", "1", "0", ".", "1", "/", "x", "?", "u", "=", "p",
         "u", "b", "m", "e", "d", ".", "n", "c", "b", "i", ".", "n", "l", "m", ".", "n", "i", "h",
         ".", "g", "o", "v", "/", "1", "2", "3", "4", "5", "6", "7">>,
     <<"d", "o", "i", ".", "o", "r", "g", "/", "x", "?", "u", "=", "a", "r", "x", "i", "v", ".",
         "o", "r", "g", "/", "a", "b", "s", "/", "2", "3", "0", "1", ".", "1", "2", "3", "4", "5",
         "&", "v", "=", "n", "c", "b", "i", ".", "n", "l", "m", ".", "n", "i", "h", ".", "g", "o",
         "v", "/", "p", "u", "b", "m", "e", "d", "/", "1", "2">>}

PaperUrls == Concat(Schemes, PaperPaths)

\* Numbers of filler words: up to the bound, and beyond the ranges of word
\* counts the heuristics reward
WordCounts == (0..MaxWords) \cup {16, 21}

PaperPhrases ==
    {<<"x">>, <<"s", "t", "u", "d", "y">>, <<"c", "l", "i", "n", "i", "c", "a", "l", " ", "t", "r",
        "i", "a", "l">>, <<"a", " ", "r", "a", "n", "d", "o", "m", "i", "z", "e", "d", " ", "c",
        "l", "i", "n", "i", "c", "a", "l", " ", "t", "r", "i", "a", "l">>,
     <<"m", "e", "t", "a", "-", "a", "n", "a", "l", "y", "s", "i", "s", " ", "o", "f", " ", "c",
         "o", "h", "o", "r", "t", " ", "s", "t", "u", "d", "y">>}

PaperTails == {<<>>, <<":", " ", "b">>, <<" ", "e", "t", " ", "a", "l", ".">>}

PaperTextsOf(counts) ==
    {Repeat(<<"a", "a", " ">>, n) \o phrase \o tail :
        n \in counts, phrase \in PaperPhrases, tail \in PaperTails}

\* Texts with spaces around them, and texts that hold '://'
OtherTexts ==
    {<<" ", " ", "c", "l", "i", "n", "i", "c", "a", "l", " ", "t", "r", "i", "a", "l", " ", " ">>,
        <<" ", " ", "a", " ", "r", "a", "n", "d", "o", "m", "i", "z", "e", "d", " ", "c", "l", "i",
        "n", "i", "c", "a", "l", " ", "t", "r", "i", "a", "l", " ", "e", "t", " ", "a", "l", ".",
        " ">>,
     <<"a", " ", "s", "t", "u", "d", "y", " ", "o", "f", " ", "f", "t", "p", ":", "/", "/", "f",
         "i", "l", "e", "s", " ", "a", "n", "d", " ", "m", "o", "r", "e">>, <<" ", " ", "T", "h",
         "e", " ", "G", "u", "i", "d", "e", " ", "b", "y", " ", "B", "o", "b", " ">>, <<" ", "a",
         "b", " ">>}

PaperInputs ==
    PaperIdentifiers \cup PaperUrls \cup PaperTextsOf(WordCounts) \cup OtherTexts

\* Valid ISBN-13 and ISBN-10
Isbn13Bases == {<<"9", "7", "8", "0", "3", "0", "6", "4", "0", "6", "1", "5", "7">>, <<"9", "7",
    "9", "1", "2", "3", "4", "5", "6", "7", "8", "9", "6">>}

Isbn10Bases == {<<"0", "3", "0", "6", "4", "0", "6", "1", "5", "2">>, <<"0", "8", "0", "4", "4",
    "2", "9", "5", "7", "X">>}

\* One character of an ISBN replaced
Replaced(bases, chars) ==
    UNION {{[b EXCEPT ![i] = c] : i \in 1..Len(b), c \in chars} : b \in bases}

IsbnVariants ==
    Replaced(Isbn13Bases \cup Isbn10Bases, Range(DigitChars) \cup {"X"})

IsbnFormatted ==
    {<<"9", "7", "8", "-", "0", "-", "3", "0", "6", "-", "4", "0", "6", "1", "5", "-", "7">>,
        <<"9", "7", "8", " ", "0", " ", "3", "0", "6", " ", "4", "0", "6", "1", "5", " ", "7">>,
        <<" ", "9", "7", "8", "0", "3", "0", "6", "4", "0", "6", "1", "5", "7", " ">>,
     <<"9", "7", "8", "-", "0", "-", "3", "0", "6", "-", "4", "0", "6", "1", "5", "-", "8">>,
         <<"0", "-", "3", "0", "6", "-", "4", "0", "6", "1", "5", "-", "2">>, <<"0", " ", "8", "0",
         "4", "4", " ", "2", "9", "5", "7", " ", "x">>, <<"0", "-", "8", "0", "4", "4", "-", "2",
         "9", "5", "7", "-", "1">>,
     <<"9", "7", "8", "0", "3", "0", "6", "4", "0", "6", "1">>, <<"9", "7", "8", "0", "3", "0",
         "6", "4", "0", "6", "1", "5">>, <<"9", "7", "8", "0", "3", "0", "6", "4", "0", "6", "1",
         "5", "7", "0">>, <<"0", "3", "0", "6", "4", "0", "6", "1", "5">>,
     <<"9", "7", "7", "-", "0", "-", "3", "0", "6", "-", "4", "0", "6", "1", "5", "-", "7">>}

GoogleBooksUrls ==
    Concat(Schemes, {<<"b", "o", "o", "k", "s", ".", "g", "o", "o", "g", "l", "e", ".", "c", "o",
        "m", "/", "b", "o", "o", "k", "s", "?", "i", "d", "=", "a", "b", "c", "_", "-", "1", "&",
        "p", "g", "=", "1">>, <<"b", "o", "o", "k", "s", ".", "g", "o", "o", "g", "l", "e", ".",
        "c", "o", "m", "/", "b", "o", "o", "k", "s", "?", "i", "d", "=">>,
                     <<"b", "o", "o", "k", "s", ".", "g", "o", "o", "g", "l", "e", ".", "c", "o",
                         "m", "/", "b", "o", "o", "k", "s">>, <<"b", "o", "o", "k", "s", ".", "g",
                         "o", "o", "g", "l", "e", ".", "c", "o", "m", "/", "b", "o", "o", "k", "s",
                         "?", "i", "d", "=", "x", " ", "y">>})

BookPhrases == {<<"x">>, <<"G", "u", "i", "d", "e">>, <<"a", " ", "h", "a", "n", "d", "b", "o",
    "o", "k">>}

BookTails == {<<>>, <<" ", "b", "y", " ", "B", "o", "b">>, <<" ", "b", "y", " ", "7">>}

\* s as it is and between quotes
Quotings(s) == {s, <<"'">> \o s \o <<"\"">>}

BookTextsOf(counts) ==
    UNION {Quotings(Repeat(filler, n) \o phrase \o tail) :
        filler \in {<<"a", "a", " ">>, <<"A", "a", " ">>}, n \in counts,
        phrase \in BookPhrases, tail \in BookTails}

BookInputs ==
    IsbnVariants \cup IsbnFormatted \cup GoogleBooksUrls \cup BookTextsOf(WordCounts)
    \cup OtherTexts

ArticlePaths ==
    {<<"m", "e", "d", "i", "u", "m", ".", "c", "o", "m", "/", "@", "a", "/", "p", "o", "s", "t",
        "-", "1">>, <<"e", "n", ".", "w", "i", "k", "i", "p", "e", "d", "i", "a", ".", "o", "r",
        "g", "/", "w", "i", "k", "i", "/", "x">>, <<"e", "x", "a", "m", "p", "l", "e", ".", "c",
        "o", "m">>,
     <<"b", "l", "o", "g", ".", "e", "x", "a", "m", "p", "l", "e", ".", "c", "o", "m", "/", "a",
         "?", "b", "#", "c">>, <<"e", "x", "a", " ", "m", "p", "l", "e", ".", "c", "o", "m">>,
         <<"l", "o", "c", "a", "l", "h", "o", "s", "t">>, <<"a", ".", "b", ".", "e", "x", "a", "m",
         "p", "l", "e", ".", "c", "o", "m">>}

ArticleInputs ==
    Concat(Schemes \cup {<<"H", "T", "T", "P", "S", ":", "/", "/">>, <<"h", "t", "t", "p", "s",
        ":">>, <<"f", "t", "p", ":", "/", "/">>, <<" ", "h", "t", "t", "p", "s", ":", "/", "/">>},
        ArticlePaths)

\* Host names in which www. stands after the first place, a top-level domain
\* of one letter, and a label that ends with a dash
ArticleHosts ==
    {<<"m", "e", "d", "i", "u", "m", ".", "c", "w", "w", "w", ".", "o", "m">>, <<"b", "l", "o",
        "w", "w", "w", ".", "g", ".", "e", "x", "a", "m", "p", "l", "e", ".", "c", "o", "m", "/",
        "a">>, <<"a", ".", "w", "w", "w", ".", "e", "x", "a", "m", "p", "l", "e", ".", "c", "o",
        "m">>, <<"d", "e", "v", ".", "t", "o", "/", "x">>,
     <<"e", "x", "a", "m", "p", "l", "e", ".", "c">>, <<"e", "x", "a", "m", "p", "l", "e", "-",
         ".", "c", "o", "m">>, <<"n", "e", "w", "s", ".", "e", "x", "a", "m", "p", "l", "e", ".",
         "o", "r", "g", "#", "t", "o", "p">>, <<"h", "t", "t", "p", ".", "c", "o", "m">>}

\* The inputs given to the Article detector alone
ArticleUrls ==
    ArticleInputs \cup Concat({<<>>, <<"h", "t", "t", "p", "s", ":", "/", "/">>, <<"h", "t", "t",
        "p", ":", "/", "/", "w", "w", "w", ".">>, <<"w", "w", "w", ".">>}, ArticleHosts)

\* The inputs given to the four detectors together
BuiltinInputs ==
    YouTubeInputs \cup PaperIdentifiers \cup PaperUrls \cup PaperTextsOf({0, 4})
    \cup IsbnFormatted \cup GoogleBooksUrls \cup BookTextsOf({0, 2}) \cup OtherTexts
    \cup ArticleInputs

----------------------------------------------------------------------------
(* The built-in detectors as a state machine: an input is given, and each   *)
(* step applies a method of a detector to it                                *)

Given(input) ==
    /\ detectors = <<>>
    /\ config = constructor(EmptyPartial)
    /\ call = Call("input", input, "", NoDetector, EmptyPartial)
    /\ ret = <<>>
    /\ invoked = <<>>
    /\ regSeq = <<>>
    /\ lastOp = [id \in DetectorIds |-> NoDetector]
    /\ baseline = NoBaseline
    /\ EngineAlone

\* detector.detect(input) or detector.detectAll(input), called directly,
\* returned found
Apply(d, method, found) ==
    /\ call' = Call(method, call.input, d.id, d.name, EmptyPartial)
    /\ ret' = found
    /\ invoked' = <<Invocation(d, method, call.input)>>
    /\ UNCHANGED <<detectors, config, regSeq, lastOp, baseline, hook, component, db>>

YouTubeDetect == Apply(youtubeDetector, "detector.detect", youtubeDetect(call.input))

YouTubeDetectAll ==
    Apply(youtubeDetector, "detector.detectAll", youtubeDetectAll(call.input))

PaperDetect == Apply(paperDetector, "detector.detect", paperDetect(call.input))

PaperDetectAll ==
    Apply(paperDetector, "detector.detectAll", paperDetectAll(call.input))

BookDetect == Apply(bookDetector, "detector.detect", bookDetect(call.input))

BookDetectAll ==
    Apply(bookDetector, "detector.detectAll", bookDetectAll(call.input))

ArticleDetect == Apply(articleDetector, "detector.detect", articleDetect(call.input))

ArticleDetectAll ==
    Apply(articleDetector, "detector.detectAll", articleDetectAll(call.input))

RECURSIVE RegisterAll(_, _)
RegisterAll(m, ds) ==
    IF ds = <<>> THEN m ELSE RegisterAll(register(m, Head(ds)), Tail(ds))

\* The strings the engine passes a registered detector: the given input,
\* its trimmed form, and the inputs of the baseline
EngineStrings(input) == {input, trim(input)} \cup Inputs

\* initializeDetectors()
InitializeDetectors ==
    /\ detectors' = RegisterAll(detectors, BuiltinObjects(EngineStrings(call.input)))
    /\ call' = Call("initializeDetectors", call.input, "", NoDetector, EmptyPartial)
    /\ ret' = <<>>
    /\ invoked' = <<>>
    /\ regSeq' = SelectSeq(regSeq, LAMBDA id : \A k \in 1..Len(BuiltinDetectors) :
                                                  BuiltinDetectors[k].id # id)
                 \o [k \in 1..Len(BuiltinDetectors) |-> BuiltinDetectors[k].id]
    /\ lastOp' = [id \in DOMAIN lastOp \cup {BuiltinDetectors[k].id : k \in 1..Len(BuiltinDetectors)} |->
                    IF \E k \in 1..Len(BuiltinDetectors) : BuiltinDetectors[k].id = id
                    THEN id ELSE lastOp[id]]
    /\ baseline' = NoBaseline
    /\ UNCHANGED <<config, hook, component, db>>

\* detectionEngine.detect(input) of the given input
DetectGiven == Detect(call.input)

YouTubeInit == \E input \in YouTubeInputs : Given(input)

YouTubeNext == YouTubeDetect \/ YouTubeDetectAll

YouTubeSpec == YouTubeInit /\ [][YouTubeNext]_vars

PaperInit == \E input \in PaperInputs : Given(input)

PaperNext == PaperDetect \/ PaperDetectAll

PaperSpec == PaperInit /\ [][PaperNext]_vars

BookInit == \E input \in BookInputs : Given(input)

BookNext == BookDetect \/ BookDetectAll

BookSpec == BookInit /\ [][BookNext]_vars

ArticleInit == \E input \in ArticleUrls : Given(input)

ArticleNext == ArticleDetect \/ ArticleDetectAll

ArticleSpec == ArticleInit /\ [][ArticleNext]_vars

\* The methods of the four detectors, called directly
DetectorsInit == \E input \in BuiltinInputs : Given(input)

DetectorsNext ==
    \/ YouTubeDetect
    \/ YouTubeDetectAll
    \/ PaperDetect
    \/ PaperDetectAll
    \/ BookDetect
    \/ BookDetectAll
    \/ ArticleDetect
    \/ ArticleDetectAll

DetectorsSpec == DetectorsInit /\ [][DetectorsNext]_vars

\* The engine with the detectors initializeDetectors registers
BuiltinInit == \E input \in BuiltinInputs : Given(input)

BuiltinNext ==
    \/ InitializeDetectors
    \/ DetectGiven

BuiltinSpec == BuiltinInit /\ [][BuiltinNext]_vars

----------------------------------------------------------------------------
(* Properties of the detection engine *)

Score(r) == CONFIDENCE_SCORES[r.confidence]

MinScore == CONFIDENCE_SCORES[config.minConfidence]

Blank(s) == \A i \in 1..Len(s) : s[i] = " "

DetectorNamed(name) == CHOOSE d \in DetectorPool : d.name = name

\* The place of a value in a sequence without repetitions, 0 when absent
PlaceIn(seq, e) ==
    IF \E i \in 1..Len(seq) : seq[i] = e
    THEN CHOOSE i \in 1..Len(seq) : seq[i] = e
    ELSE 0

RegisteredIds == [i \in 1..Len(detectors) |-> detectors[i].id]

\* The candidates the detectors hold for the input of the latest call, in
\* the order the engine collects them
Candidates ==
    Collect(getSortedDetectors(detectors), trim(call.input),
            [results |-> <<>>, invoked |-> <<>>]).results

\* C1: the list detectAll returns is ordered by non-increasing confidence
\* score, whichever detector produced each result.
C1_ConfidenceOrdering ==
    call.op = "detectAll" =>
        \A i, j \in 1..Len(ret) : i < j => Score(ret[i]) >= Score(ret[j])

\* detectAll returned a result of a lower-priority detector ahead of a
\* result of strictly lower confidence of a higher-priority detector
C1_Witness ==
    /\ call.op = "detectAll"
    /\ \E i, j \in 1..Len(ret) :
          /\ i < j
          /\ Score(ret[i]) > Score(ret[j])
          /\ DetectorNamed(ret[i].by).priority < DetectorNamed(ret[j].by).priority

\* C2: no result of detectAll or detect has a confidence score strictly
\* below the score of the configured minConfidence.
C2_Threshold ==
    call.op \in {"detectAll", "detect"} =>
        \A i \in 1..Len(ret) : Score(ret[i]) >= MinScore

\* detectAll returned results under a raised threshold that removed a
\* candidate, after a detector was replaced
C2_Witness ==
    /\ call.op = "detectAll"
    /\ config.minConfidence = "high"
    /\ Len(ret) > 0
    /\ \E k \in 1..Len(Candidates) : Score(Candidates[k]) < MinScore
    /\ regSeq # RegisteredIds

\* C3 as claimed: for any integer maxSuggestions, detectAll returns at most
\* maxSuggestions results.
C3_CapAnyInteger ==
    call.op = "detectAll" => Len(ret) <= config.maxSuggestions

\* C3 as amended: for a maxSuggestions that is not negative, detectAll
\* returns at most maxSuggestions results.
C3_Cap ==
    (call.op = "detectAll" /\ config.maxSuggestions >= 0) =>
        Len(ret) <= config.maxSuggestions

\* detectAll cut the candidates that meet the threshold down to maxSuggestions
C3_Witness ==
    /\ call.op = "detectAll"
    /\ config.maxSuggestions = 1
    /\ Len(ret) = 1
    /\ Cardinality({k \in 1..Len(Candidates) : Score(Candidates[k]) >= MinScore}) > 1

\* Whether the result at i may stand before the result at j, of equal
\* confidence, when place gives the order of the detectors of equal priority
TieOrder(i, j, place) ==
    LET di == DetectorNamed(ret[i].by)
        dj == DetectorNamed(ret[j].by)
    IN  \/ di.priority > dj.priority
        \/ /\ di.priority = dj.priority
           /\ di.id # dj.id
           /\ PlaceIn(place, di.id) < PlaceIn(place, dj.id)
        \/ /\ di = dj
           /\ ret[i].idx < ret[j].idx

\* C4 as claimed: results of equal confidence stand in descending order of
\* their detectors' priority, those of detectors of equal priority in the
\* order in which the detectors were registered, and those of one detector
\* in the order in which it returned them.
C4_TieBreakRegistrationOrder ==
    call.op = "detectAll" =>
        \A i, j \in 1..Len(ret) :
            (i < j /\ Score(ret[i]) = Score(ret[j])) => TieOrder(i, j, regSeq)

\* C4 as amended: the same, with the detectors of equal priority in the
\* order of the registry's entries: an id takes its place when it is
\* registered while absent, and keeps it when it is registered again.
C4_TieBreak ==
    call.op = "detectAll" =>
        \A i, j \in 1..Len(ret) :
            (i < j /\ Score(ret[i]) = Score(ret[j]))
                => TieOrder(i, j, RegisteredIds)

\* detectAll returned results of equal confidence of two detectors of equal
\* priority, the first of which was registered again after the second
C4_Witness ==
    /\ call.op = "detectAll"
    /\ regSeq # RegisteredIds
    /\ \E i, j \in 1..Len(ret) :
          /\ i < j
          /\ Score(ret[i]) = Score(ret[j])
          /\ ret[i].by # ret[j].by
          /\ DetectorNamed(ret[i].by).priority = DetectorNamed(ret[j].by).priority

\* C5: for an input that is empty or only whitespace, detect returns null,
\* detectAll returns the empty list, and no detector method is invoked.
C5_BlankInput ==
    (call.op \in {"detectAll", "detect"} /\ Blank(call.input)) =>
        (ret = <<>> /\ invoked = <<>>)

\* detectAll was called with whitespace while a detector that answers the
\* empty string was registered
C5_Witness ==
    /\ call.op = "detectAll"
    /\ Len(call.input) > 0
    /\ Blank(call.input)
    /\ \E i \in 1..Len(detectors) :
          detectors[i].hasDetectAll /\ DetectorDetectAll(detectors[i], <<>>) # <<>>
    /\ ret = <<>>

\* C6: while the registry and the configuration are not written, detectAll
\* returns for an input the list it returned for that input before, whatever
\* detect, detectAll, detectFor, getAll and getConfig calls came in between.
C6_Determinism ==
    (call.op = "detectAll" /\ baseline.set) => ret = baseline.of[call.input]

\* detectAll returned a list of several results for an input of which the
\* list was taken at an earlier call
C6_Witness ==
    /\ call.op = "detectAll"
    /\ baseline.set
    /\ ~baseline.fresh
    /\ Len(ret) > 1

\* C7: getAll holds exactly one entry for each id whose latest operation was
\* register, that entry is the detector of that register, and no entry for
\* an id whose latest operation was unregister.
C7_LastWriteWins ==
    \A id \in DetectorIds :
        LET entries == {i \in 1..Len(getAll(detectors)) :
                           getAll(detectors)[i].id = id}
        IN  IF lastOp[id] = NoDetector
            THEN entries = {}
            ELSE /\ Cardinality(entries) = 1
                 /\ \A i \in entries : getAll(detectors)[i].name = lastOp[id]

\* an id was registered, then another id, then the first id again with
\* another detector of that id
C7_Witness ==
    /\ call.op = "register"
    /\ call.detector = "A2"
    /\ Len(detectors) = 2
    /\ detectors[1].name = "A2"
    /\ regSeq = <<"b", "a">>

\* C8: detect returns the first element of the list detectAll returns for
\* the same input, and null exactly when that list is empty.
C8_DetectIsFirstOfDetectAll ==
    call.op = "detect" =>
        LET all == detectAll(detectors, config, call.input).out
        IN  /\ (ret = <<>>) <=> (all = <<>>)
            /\ all # <<>> => ret = <<all[1]>>

\* detect returned a result for an input for which detectAll returns several
\* results that differ
C8_Witness ==
    /\ call.op = "detect"
    /\ ret # <<>>
    /\ LET all == detectAll(detectors, config, call.input).out
       IN  Len(all) > 1 /\ all[Len(all)] # all[1]

\* C9: detectFor returns null and invokes nothing when no detector is
\* registered under pluginId; otherwise it returns what that detector's
\* detect returns for the trimmed input and invokes that method only,
\* whatever the configuration and the other detectors are.
C9_DetectFor ==
    call.op = "detectFor" =>
        LET entries == {i \in 1..Len(detectors) : detectors[i].id = call.id}
        IN  IF entries = {}
            THEN ret = <<>> /\ invoked = <<>>
            ELSE \A i \in entries :
                    /\ ret = DetectorDetect(detectors[i], trim(call.input))
                    /\ invoked = <<Invocation(detectors[i], "detect",
                                              trim(call.input))>>

\* detectFor returned, for an input with whitespace around it, a result
\* below the configured threshold while another detector was registered
C9_Witness ==
    /\ call.op = "detectFor"
    /\ trim(call.input) # call.input
    /\ Len(detectors) = 2
    /\ ret # <<>>
    /\ Score(ret[1]) < MinScore

\* C10: setConfig sets exactly the fields of its argument and leaves the
\* other fields as they were; a new engine has minConfidence low,
\* maxSuggestions 5 and debounceMs 300 in each field its constructor was not
\* given.
C10_ConfigMerge ==
    /\ [](call.op = "new" =>
            /\ config.minConfidence =
                 IF "minConfidence" \in call.arg.keys
                 THEN call.arg.vals.minConfidence ELSE "low"
            /\ config.maxSuggestions =
                 IF "maxSuggestions" \in call.arg.keys
                 THEN call.arg.vals.maxSuggestions ELSE 5
            /\ config.debounceMs =
                 IF "debounceMs" \in call.arg.keys
                 THEN call.arg.vals.debounceMs ELSE 300)
    /\ [][call'.op = "setConfig" =>
            \A f \in ConfigFields :
                config'[f] = IF f \in call'.arg.keys
                             THEN call'.arg.vals[f] ELSE config[f]]_vars

\* setConfig was given maxSuggestions only, and the two other fields kept
\* values that are not the defaults
C10_Witness ==
    /\ call.op = "setConfig"
    /\ call.arg.keys = {"maxSuggestions"}
    /\ config.maxSuggestions = call.arg.vals.maxSuggestions
    /\ config.minConfidence # "low"
    /\ config.debounceMs # 300

----------------------------------------------------------------------------
(* Queries *)

QueryOps == {"detect", "detectAll", "detectFor", "getAll", "getConfig"}

\* results[0] ?? null of a list of results
FirstOrNull(results) == IF results = <<>> THEN <<>> ELSE <<Head(results)>>

\* C11: detect, detectAll, detectFor, getAll and getConfig leave the
\* registered detectors, their order and the configuration as they were, so
\* that among queries with no register, unregister or setConfig in between
\* each call returns what it returns alone: detectAll and detect what the
\* first query after the last write saw, getAll the registry and getConfig
\* the configuration of that moment.
C11_QueriesReadOnly ==
    /\ [][call'.op \in QueryOps =>
            /\ detectors' = detectors
            /\ config' = config]_vars
    /\ []((call.op = "detect" /\ baseline.set) =>
            ret = FirstOrNull(baseline.of[call.input]))
    /\ []((call.op = "detectAll" /\ baseline.set) =>
            ret = baseline.of[call.input])
    /\ [](call.op = "getAll" => ret = detectors)
    /\ [](call.op = "getConfig" => ret = <<config>>)

\* A detectAll that follows other queries, on a registry whose insertion
\* order is not the order of priority, with a result
C11_Witness ==
    /\ call.op = "detectAll"
    /\ baseline.set /\ ~baseline.fresh
    /\ Len(detectors) = 2
    /\ detectors[1].priority < detectors[2].priority
    /\ ret # <<>>

----------------------------------------------------------------------------
(* Properties of the built-in detectors *)

DetectorOps == {"detector.detect", "detector.detectAll"}

\* The latest call is a method of detector d, called directly
CalledOn(d) == call.op \in DetectorOps /\ call.detector = d.name

\* The four detectors of initializeDetectors are the registry, the
\* configuration is the default one
BuiltinRegistered ==
    /\ detectors = BuiltinObjects(EngineStrings(call.input))
    /\ config = DEFAULT_CONFIG

\* C12: for each built-in detector and every input, detect is the best
\* member of detectAll: detect returns null exactly when detectAll returns
\* the empty list, and otherwise detectAll holds a candidate with the
\* confidence, inputType and extractedId of detect's result and none of a
\* higher confidence.
C12_DetectIsBestOfDetectAll ==
    call.op = "detector.detect" =>
        LET all == BuiltinDetectAll(call.detector, call.input)
        IN  /\ (ret = <<>>) <=> (all = <<>>)
            /\ ret # <<>> =>
                /\ \E i \in 1..Len(all) :
                      /\ all[i].confidence = ret[1].confidence
                      /\ all[i].inputType = ret[1].inputType
                      /\ all[i].extractedId = ret[1].extractedId
                /\ \A i \in 1..Len(all) : Score(all[i]) <= Score(ret[1])

\* What the YouTube detector answers for the input the engine passes on
YouTubeAnswer == youtubeDetect(trim(call.input))

\* The candidates of the other three detectors for that input
OtherAnswers ==
    paperDetectAll(trim(call.input)) \o bookDetectAll(trim(call.input))
    \o articleDetectAll(trim(call.input))

\* The first place of s at which youtube.com/watch?v= and 11 characters of
\* a video id stand, 0 if there is none
WatchUrlPlace(s) ==
    LET lit == <<"y", "o", "u", "t", "u", "b", "e", ".", "c", "o", "m", "/", "w", "a", "t", "c",
        "h", "?", "v", "=">>
        places == {i \in 1..Len(s) :
                      StartsAt(s, i, lit) /\ Run(s, i + Len(lit), IsIdChar) >= VideoIdLength}
    IN  IF places = {} THEN 0 ELSE Least(places) + Len(lit)

\* C13 as stated: with the four built-in detectors registered and the
\* default configuration, whenever the YouTube detector matches the input
\* the engine's detect returns the YouTube result.
C13_YouTubeAlwaysWins ==
    (call.op = "detect" /\ BuiltinRegistered /\ YouTubeAnswer # <<>>) =>
        ret = YouTubeAnswer

\* C13: with the four built-in detectors registered and the default
\* configuration, whenever the YouTube detector matches the input with
\* confidence definite, the engine's detect returns the YouTube result; for
\* an input that holds youtube.com/watch?v= and an 11-character id (and no
\* youtu.be/ link) the result is definite with that id as extractedId.
C13_YouTubeDefiniteWins ==
    (call.op = "detect" /\ BuiltinRegistered) =>
        /\ (YouTubeAnswer # <<>> /\ YouTubeAnswer[1].confidence = "definite") =>
              ret = YouTubeAnswer
        /\ (WatchUrlPlace(trim(call.input)) > 0
            /\ ~includes(call.input, <<"y", "o", "u", "t", "u", ".", "b", "e", "/">>)) =>
              /\ ret # <<>>
              /\ ret[1].pluginId = "youtube"
              /\ ret[1].confidence = "definite"
              /\ ret[1].extractedId =
                    <<SubSeq(trim(call.input), WatchUrlPlace(trim(call.input)),
                             WatchUrlPlace(trim(call.input)) + VideoIdLength - 1)>>

\* The engine returned the YouTube result for a watch URL although another
\* detector answered definite too
C13_Witness ==
    /\ call.op = "detect"
    /\ BuiltinRegistered
    /\ WatchUrlPlace(trim(call.input)) > 0
    /\ ret = YouTubeAnswer
    /\ \E i \in 1..Len(OtherAnswers) : OtherAnswers[i].confidence = "definite"

YouTubeUrlPatterns == {"video-url", "shorts-url", "playlist-url", "channel-url"}

\* C14: the YouTube detector reports definite whenever the input holds
\* youtube.com or youtu.be, and high only when the match is the bare
\* 11-character video id; every match of a URL pattern (video, shorts,
\* playlist, channel) is reported definite with inputType url.
C14_YouTubeConfidence ==
    (CalledOn(youtubeDetector) /\ ret # <<>>) =>
        /\ (includes(call.input, <<"y", "o", "u", "t", "u", "b", "e", ".", "c", "o",
            "m">>) \/ includes(call.input, <<"y", "o", "u", "t", "u", ".", "b", "e">>)) =>
              ret[1].confidence = "definite"
        /\ ret[1].confidence = "high" => ret[1].matchedPattern = <<"bare-video-id">>
        /\ ret[1].matchedPattern[1] \in YouTubeUrlPatterns =>
              /\ ret[1].confidence = "definite"
              /\ ret[1].inputType = "url"

----------------------------------------------------------------------------
(* Book detector: ISBN *)

\* The input with its dashes and spaces removed
Cleaned == SelectSeq(call.input, LAMBDA c : c # "-" /\ c # " ")

\* 13 digits that start with 978 or 979
HasIsbn13Shape(s) ==
    /\ Len(s) = 13
    /\ \A i \in 1..13 : IsDigit(s[i])
    /\ SubSeq(s, 1, 3) \in {<<"9", "7", "8">>, <<"9", "7", "9">>}

\* 9 digits and a digit or X
HasIsbn10Shape(s) ==
    /\ Len(s) = 10
    /\ \A i \in 1..9 : IsDigit(s[i])
    /\ (IsDigit(s[10]) \/ s[10] = "X")

\* The ISBN checksums: the 13 digits weighted 1, 3, 1, 3, ... sum to a
\* multiple of 10; the 10 characters weighted 10, 9, ..., 1, X counting 10,
\* sum to a multiple of 11
IsbnChecksumValid(s) ==
    LET value(c) == IF c = "X" THEN 10 ELSE parseInt(c)
        weight(i) == IF Len(s) = 13 THEN (IF i % 2 = 1 THEN 1 ELSE 3) ELSE 11 - i
        sum[k \in 0..Len(s)] == IF k = 0 THEN 0 ELSE sum[k - 1] + value(s[k]) * weight(k)
    IN  sum[Len(s)] % (IF Len(s) = 13 THEN 10 ELSE 11) = 0

\* C15: for every input whose form without dashes and spaces is a 13-digit
\* string starting with 978 or 979, or 9 digits followed by a digit or X,
\* the Book detector's detect and detectAll return an identifier candidate
\* that is definite exactly when the ISBN checksum is valid and high
\* otherwise, with the cleaned string as extractedId.
C15_IsbnConfidence ==
    (CalledOn(bookDetector) /\ (HasIsbn13Shape(Cleaned) \/ HasIsbn10Shape(Cleaned))) =>
        \E i \in 1..Len(ret) :
            /\ ret[i].inputType = "identifier"
            /\ ret[i].extractedId = <<Cleaned>>
            /\ ret[i].confidence = IF IsbnChecksumValid(Cleaned) THEN "definite" ELSE "high"

\* detectAll answered definite for a valid ISBN-13 written with dashes
C15_Witness ==
    /\ CalledOn(bookDetector)
    /\ call.op = "detector.detectAll"
    /\ includes(call.input, <<"-">>)
    /\ HasIsbn13Shape(Cleaned)
    /\ IsbnChecksumValid(Cleaned)
    /\ ret # <<>>
    /\ ret[1].confidence = "definite"

\* s comes from a valid 13-digit ISBN by replacing one digit by another
OneDigitOff(s) ==
    /\ Len(s) = 13
    /\ \A i \in 1..13 : IsDigit(s[i])
    /\ \E i \in 1..13, c \in Range(DigitChars) :
          /\ c # s[i]
          /\ HasIsbn13Shape([s EXCEPT ![i] = c])
          /\ IsbnChecksumValid([s EXCEPT ![i] = c])

\* C16: for a 13-digit ISBN with a valid checksum the Book detector reports
\* definite; with one digit replaced by a different digit it never reports
\* definite: it reports high if the prefix is intact and nothing at all if
\* the prefix is broken, from detect and from detectAll.
C16_SingleDigitChange ==
    CalledOn(bookDetector) =>
        /\ (HasIsbn13Shape(call.input) /\ IsbnChecksumValid(call.input)) =>
              (ret # <<>> /\ ret[1].confidence = "definite")
        /\ OneDigitOff(call.input) =>
              /\ \A i \in 1..Len(ret) : ret[i].confidence # "definite"
              /\ IF HasIsbn13Shape(call.input)
                 THEN ret # <<>> /\ ret[1].confidence = "high"
                 ELSE ret = <<>>

----------------------------------------------------------------------------
(* Free-text candidates *)

IsFreeText(r) == r.inputType = "search-query"

\* No DOI, PubMed id or arXiv id is extracted and no academic domain is in
\* the input
NoPaperStructure(s) ==
    /\ extractDoi(s) = <<>>
    /\ extractPmid(s) = <<>>
    /\ extractArxivId(s) = <<>>
    /\ ~isAcademicUrl(s)

\* C17: the Paper detector produces a free-text candidate only when the
\* input holds no '://', has at least 10 characters and its score, always
\* within 15..75, is at least 35; the candidate is medium for a score of at
\* least 55 and low below it; for a score below 35 the detector produces no
\* candidate at all.  For detect and for detectAll.
C17_PaperFreeText ==
    CalledOn(paperDetector) =>
        LET score == getPaperTitleScore(call.input)
        IN  /\ score \in 15..75
            /\ \A i \in 1..Len(ret) : IsFreeText(ret[i]) =>
                  /\ ~includes(call.input, SchemeSeparator)
                  /\ Len(call.input) >= 10
                  /\ score >= 35
                  /\ ret[i].confidence = IF score >= 55 THEN "medium" ELSE "low"
            /\ (score < 35 /\ NoPaperStructure(call.input)) => ret = <<>>

\* C18: the Book detector produces a free-text candidate only when the
\* input has at least 3 characters, no '://' and a score, capped at 80, of
\* at least 35; the candidate is medium for a score of at least 60 and low
\* below it, never definite or high; for a score below 35 there is no
\* free-text candidate.  For detect and for detectAll.
C18_BookFreeText ==
    CalledOn(bookDetector) =>
        LET score == getBookTitleScore(call.input)
        IN  /\ score <= 80
            /\ \A i \in 1..Len(ret) : IsFreeText(ret[i]) =>
                  /\ ~includes(call.input, SchemeSeparator)
                  /\ Len(call.input) >= 3
                  /\ score >= 35
                  /\ ret[i].confidence = IF score >= 60 THEN "medium" ELSE "low"

----------------------------------------------------------------------------
(* Paper detector: the order of its checks *)

\* The candidates of ret that carry the matchedPattern kind
OfKind(kind) == SelectSeq(ret, LAMBDA r : r.matchedPattern = <<kind>>)

\* C19: paperDetector.detect returns the first match in the order DOI,
\* PubMed id, arXiv id, academic domain, free-text heuristic: an identifier
\* is reported definite with the extracted identifier and its
\* matchedPattern, an academic domain with no identifier high, and a later
\* kind only when every earlier kind failed.
C19_PaperDetectOrder ==
    (CalledOn(paperDetector) /\ call.op = "detector.detect") =>
        LET doi == extractDoi(call.input)
            pmid == extractPmid(call.input)
            arxivId == extractArxivId(call.input)
            academic == isAcademicUrl(call.input)
            Identified(id, kind) ==
                /\ Len(ret) = 1
                /\ ret[1].confidence = "definite"
                /\ ret[1].extractedId = id
                /\ ret[1].matchedPattern = <<kind>>
        IN  /\ doi # <<>> => Identified(doi, "doi")
            /\ (doi = <<>> /\ pmid # <<>>) => Identified(pmid, "pmid")
            /\ (doi = <<>> /\ pmid = <<>> /\ arxivId # <<>>) => Identified(arxivId, "arxiv")
            /\ (doi = <<>> /\ pmid = <<>> /\ arxivId = <<>> /\ academic) =>
                  /\ Len(ret) = 1
                  /\ ret[1].confidence = "high"
                  /\ ret[1].extractedId = <<>>
            /\ (doi = <<>> /\ pmid = <<>> /\ arxivId = <<>> /\ ~academic) =>
                  \A i \in 1..Len(ret) : IsFreeText(ret[i])
            /\ \A i \in 1..Len(ret) :
                  /\ ret[i].matchedPattern = <<"pmid">> => doi = <<>>
                  /\ ret[i].matchedPattern = <<"arxiv">> => (doi = <<>> /\ pmid = <<>>)
                  /\ ret[i].confidence = "high" =>
                        (doi = <<>> /\ pmid = <<>> /\ arxivId = <<>>)
                  /\ IsFreeText(ret[i]) => NoPaperStructure(call.input)

\* detect answered with the DOI of an input that holds a PubMed id too
C19_Witness ==
    /\ CalledOn(paperDetector)
    /\ call.op = "detector.detect"
    /\ extractDoi(call.input) # <<>>
    /\ extractPmid(call.input) # <<>>
    /\ ret # <<>>
    /\ ret[1].matchedPattern = <<"doi">>

\* C20: paperDetector.detectAll returns one definite candidate for each of
\* DOI, PubMed id and arXiv id that can be extracted, the academic-domain
\* candidate (high) only when none of the three was extracted, and the
\* search suggestion only when no structured candidate was produced.
C20_PaperDetectAll ==
    (CalledOn(paperDetector) /\ call.op = "detector.detectAll") =>
        LET doi == extractDoi(call.input)
            pmid == extractPmid(call.input)
            arxivId == extractArxivId(call.input)
            One(id, kind) ==
                IF id = <<>> THEN OfKind(kind) = <<>>
                ELSE /\ Len(OfKind(kind)) = 1
                     /\ OfKind(kind)[1].confidence = "definite"
                     /\ OfKind(kind)[1].extractedId = id
        IN  /\ One(doi, "doi")
            /\ One(pmid, "pmid")
            /\ One(arxivId, "arxiv")
            /\ \A i \in 1..Len(ret) :
                  /\ ret[i].confidence = "definite" =>
                        ret[i].matchedPattern[1] \in {"doi", "pmid", "arxiv"}
                  /\ ret[i].confidence = "high" =>
                        (doi = <<>> /\ pmid = <<>> /\ arxivId = <<>>)
                  /\ IsFreeText(ret[i]) => Len(ret) = 1

\* detectAll answered with two identifiers for an input of an academic
\* domain, and with nothing else
C20_Witness ==
    /\ CalledOn(paperDetector)
    /\ call.op = "detector.detectAll"
    /\ isAcademicUrl(call.input)
    /\ OfKind("doi") # <<>>
    /\ OfKind("pmid") # <<>>
    /\ Len(ret) = 2

\* C21: for a valid http(s) URL the Article detector answers high when the
\* host name holds one of the known publishing platforms and medium when it
\* holds none; for a domain-shaped string without protocol it answers medium
\* with needsProtocol true; for any other input it answers nothing; it
\* never answers definite or low.
C21_ArticleConfidence ==
    CalledOn(articleDetector) =>
        /\ \A i \in 1..Len(ret) : ret[i].confidence \in {"high", "medium"}
        /\ IF ParseHttpUrl(call.input).ok THEN
               /\ Len(ret) = 1
               /\ ret[1].confidence =
                      IF IsKnownArticleDomain(ParseHttpUrl(call.input).hostname)
                      THEN "high" ELSE "medium"
           ELSE IF looksLikeUrl(call.input) THEN
               /\ Len(ret) = 1
               /\ ret[1].confidence = "medium"
               /\ "needsProtocol" \in DOMAIN ret[1].metadata
               /\ ret[1].metadata.needsProtocol
           ELSE ret = <<>>

----------------------------------------------------------------------------
(* The engine: what detectAll omits *)

\* The candidates detectAll collected: none for a blank input
Collected == IF Blank(call.input) THEN <<>> ELSE Candidates

\* The places of the collected candidates that meet the threshold
MeetingThreshold == {k \in 1..Len(Collected) : Score(Collected[k]) >= MinScore}

\* C23: detectAll drops a candidate only for failing the threshold or for
\* exceeding the cap: for a maxSuggestions that is not negative it returns
\* min(maxSuggestions, k) results, k the number of collected candidates that
\* meet the threshold; every result is one of these, and every one of
\* these that is omitted has a score at most that of every result.
C23_OnlyThresholdAndCap ==
    (call.op = "detectAll" /\ config.maxSuggestions >= 0) =>
        /\ Len(ret) = Min(config.maxSuggestions, Cardinality(MeetingThreshold))
        /\ \A i \in 1..Len(ret) : \E k \in MeetingThreshold : Collected[k] = ret[i]
        /\ \A i, j \in 1..Len(ret) : i # j => ret[i] # ret[j]
        /\ \A k \in MeetingThreshold :
              (\A i \in 1..Len(ret) : ret[i] # Collected[k]) =>
                  \A i \in 1..Len(ret) : Score(Collected[k]) <= Score(ret[i])

\* detectAll returned one result and omitted a candidate of a lower score
\* that meets the threshold, and a candidate that fails it
C23_Witness ==
    /\ call.op = "detectAll"
    /\ config.maxSuggestions = 1
    /\ Len(ret) = 1
    /\ \E k \in MeetingThreshold : Score(Collected[k]) < Score(ret[1])
    /\ \E k \in 1..Len(Collected) : Score(Collected[k]) < MinScore

----------------------------------------------------------------------------
(* YouTube detector: the order of its patterns *)

\* What each kind of pattern extracts from the input, in the order video
\* URL, Shorts URL, playlist, channel, bare id
YouTubeMatches ==
    <<[pattern |-> "video-url", id |-> YouTubeVideo(call.input)],
      [pattern |-> "shorts-url", id |-> YouTubeShorts(call.input)],
      [pattern |-> "playlist-url", id |-> YouTubePlaylist(call.input)],
      [pattern |-> "channel-url", id |-> YouTubeChannel(call.input)],
      [pattern |-> "bare-video-id",
       id |-> IF IsVideoId(call.input) THEN <<call.input>> ELSE <<>>]>>

\* The input carries a list= query parameter
HasListParameter ==
    includes(call.input, <<"?", "l", "i", "s", "t", "=">>) \/ includes(call.input, <<"&", "l", "i",
        "s", "t", "=">>)

\* C24: the YouTube detector reports the first kind that matches in the
\* order video URL, Shorts URL, playlist, channel, bare 11-character id, and
\* only that one: detect and detectAll return at most one candidate, and an
\* input that matches a video URL pattern and carries list= is a video with
\* the 11-character video id as extractedId.
C24_YouTubePatternOrder ==
    CalledOn(youtubeDetector) =>
        /\ Len(ret) <= 1
        /\ (ret = <<>>) <=> (\A k \in 1..5 : YouTubeMatches[k].id = <<>>)
        /\ \A k \in 1..5 :
              (YouTubeMatches[k].id # <<>> /\ \A j \in 1..(k - 1) : YouTubeMatches[j].id = <<>>) =>
                  /\ ret[1].matchedPattern = <<YouTubeMatches[k].pattern>>
                  /\ ret[1].extractedId = YouTubeMatches[k].id
        /\ (YouTubeVideo(call.input) # <<>> /\ HasListParameter) =>
              /\ ret[1].matchedPattern = <<"video-url">>
              /\ Len(ret[1].extractedId[1]) = VideoIdLength
              /\ includes(call.input, ret[1].extractedId[1])

\* detectAll answered with the video of a watch URL that carries list=
C24_Witness ==
    /\ CalledOn(youtubeDetector)
    /\ call.op = "detector.detectAll"
    /\ HasListParameter
    /\ YouTubePlaylist(call.input) # <<>>
    /\ Len(ret) = 1
    /\ ret[1].matchedPattern = <<"video-url">>

----------------------------------------------------------------------------
(* useDetection: the hook's four signals, its debounce timer and the        *)
(* operations it returns.  The setter of a signal runs the effect that      *)
(* reads it before it returns, so each operation is one step; a pending     *)
(* timer fires in a step of its own.                                        *)

\* debounceTimer = null
NoTimer == 0

\* The handle of a new timer: one that no pending timer has and that
\* debounceTimer does not hold
NewTimer(h) ==
    Least((1..(Cardinality(h.timers) + 2)) \ ({t.id : t \in h.timers} \cup {h.debounceTimer}))

\* clearTimeout(id): nothing happens when no pending timer has that handle
clearTimeout(timers, id) == {t \in timers : t.id # id}

\* results.some(r => r.pluginId === current.pluginId && r.inputType === current.inputType)
StillValid(current, results) ==
    /\ current # <<>>
    /\ \E i \in 1..Len(results) :
          /\ results[i].pluginId = current[1].pluginId
          /\ results[i].inputType = current[1].inputType

\* doDetection, results being what detectionEngine.detectAll(trimmed) returned
doDetection(h, results) ==
    [h EXCEPT !.detections = results,
              !.selectedDetection =
                  IF h.autoSelect /\ Len(results) > 0 THEN
                      IF StillValid(h.selectedDetection, results) THEN @ ELSE <<results[1]>>
                  ELSE IF Len(results) = 0 THEN <<>>
                  ELSE @,
              !.detecting = FALSE]

\* if (debounceTimer) { clearTimeout(debounceTimer); debounceTimer = null; }
ClearDebounce(h) ==
    IF h.debounceTimer # NoTimer
    THEN [h EXCEPT !.timers = clearTimeout(@, h.debounceTimer), !.debounceTimer = NoTimer]
    ELSE h

\* debounceTimer = setTimeout(doDetection, debounceMs): the timer keeps the
\* trimmed value of the call that set it
SetDebounce(h, handle, trimmed) ==
    [h EXCEPT !.timers = @ \cup {[id |-> handle, trimmed |-> trimmed]},
              !.debounceTimer = handle]

\* Mutant: the pending timer is left running when a new run starts
runDetectionKeepingTimer(h, value, immediate, m, cfg) ==
    LET Run2(cleared, trimmed) ==
            IF trimmed = <<>> THEN
                [cleared EXCEPT !.detections = <<>>, !.selectedDetection = <<>>,
                                !.detecting = FALSE]
            ELSE IF immediate THEN
                doDetection([cleared EXCEPT !.detecting = TRUE],
                            detectAll(m, cfg, trimmed).out)
            ELSE SetDebounce([cleared EXCEPT !.detecting = TRUE], NewTimer(cleared), trimmed)
    IN  Run2(h, trim(value))

\* Mutant: a blank value leaves the detections as they are
runDetectionBlankKeeps(h, value, immediate, m, cfg) ==
    LET Run2(cleared, trimmed) ==
            IF trimmed = <<>> THEN
                [cleared EXCEPT !.selectedDetection = <<>>, !.detecting = FALSE]
            ELSE IF immediate THEN
                doDetection([cleared EXCEPT !.detecting = TRUE],
                            detectAll(m, cfg, trimmed).out)
            ELSE SetDebounce([cleared EXCEPT !.detecting = TRUE], NewTimer(cleared), trimmed)
    IN  Run2(ClearDebounce(h), trim(value))

\* runDetection(value, immediate), detectionEngine having registry m and
\* configuration cfg
runDetection(h, value, immediate, m, cfg) ==
    LET Run2(cleared, trimmed) ==
            IF trimmed = <<>> THEN
                [cleared EXCEPT !.detections = <<>>, !.selectedDetection = <<>>,
                                !.detecting = FALSE]
            ELSE IF immediate THEN
                doDetection([cleared EXCEPT !.detecting = TRUE],
                            detectAll(m, cfg, trimmed).out)
            ELSE SetDebounce([cleared EXCEPT !.detecting = TRUE], NewTimer(cleared), trimmed)
    IN  Run2(ClearDebounce(h), trim(value))

\* createEffect(() => runDetection(input())): it runs no more once the
\* owner is disposed
Effect(h, m, cfg) ==
    IF h.disposed THEN h ELSE runDetection(h, h.input, FALSE, m, cfg)

\* setInput(value): a signal notifies only when its value changes (===)
setInput(h, value, m, cfg) ==
    IF value = h.input THEN h ELSE Effect([h EXCEPT !.input = value], m, cfg)

\* clear()
clear(h, m, cfg) ==
    ClearDebounce([setInput(h, <<>>, m, cfg) EXCEPT !.detections = <<>>,
                                                    !.selectedDetection = <<>>,
                                                    !.detecting = FALSE])

\* detectNow()
detectNow(h, m, cfg) == runDetection(h, h.input, TRUE, m, cfg)

\* selectDetection = setSelectedDetection
selectDetection(h, detection) == [h EXCEPT !.selectedDetection = detection]

\* onCleanup: the timer is cleared, debounceTimer keeps its handle
onCleanup(h) ==
    [h EXCEPT !.timers = IF h.debounceTimer # NoTimer THEN clearTimeout(@, h.debounceTimer)
                         ELSE @,
              !.disposed = TRUE]

\* useDetection({autoSelect, initialValue}) and the first run of its effect
useDetection(autoSelect, initialValue, m, cfg) ==
    Effect([input |-> initialValue, detecting |-> FALSE, detections |-> <<>>,
            selectedDetection |-> <<>>, debounceTimer |-> NoTimer, timers |-> {},
            autoSelect |-> autoSelect, disposed |-> FALSE], m, cfg)

\* The registries of the engine the hook asks
HookRegistries ==
    {<<>>, <<DetectorB>>, <<DetectorA2, DetectorB>>, <<DetectorB, DetectorA1>>}

\* A component calls useDetection while the engine holds registry m
Mount(m, autoSelect, initialValue) ==
    /\ detectors = m
    /\ config = DEFAULT_CONFIG
    /\ call = Call("useDetection", initialValue, "", NoDetector, EmptyPartial)
    /\ ret = <<>>
    /\ invoked = <<>>
    /\ regSeq = [k \in 1..Len(m) |-> m[k].id]
    /\ lastOp = [id \in DetectorIds |->
                    IF \E k \in 1..Len(m) : m[k].id = id
                    THEN (CHOOSE d \in Range(m) : d.id = id).name ELSE NoDetector]
    /\ baseline = NoBaseline
    /\ hook = useDetection(autoSelect, initialValue, m, DEFAULT_CONFIG)
    /\ component = <<>>
    /\ db = <<>>

\* The clearTimeout calls that took the pending timers gone away
Cleared(gone) ==
    IF gone = {} THEN <<>>
    ELSE <<Invocation([name |-> "window"], "clearTimeout", (CHOOSE t \in gone : TRUE).trimmed)>>

\* An operation of the hook: the engine is only read
HookStep(op, input, h) ==
    /\ hook' = h
    /\ call' = Call(op, input, "", NoDetector, EmptyPartial)
    /\ ret' = <<>>
    /\ invoked' = IF op = "timer" THEN <<>> ELSE Cleared(hook.timers \ h.timers)
    /\ UNCHANGED <<detectors, config, regSeq, lastOp, baseline, component, db>>

SetInput(value) == HookStep("setInput", value, setInput(hook, value, detectors, config))

DetectNow == HookStep("detectNow", hook.input, detectNow(hook, detectors, config))

Clear == HookStep("clear", <<>>, clear(hook, detectors, config))

SelectDetection(detection) ==
    HookStep("selectDetection", hook.input, selectDetection(hook, detection))

Cleanup ==
    /\ ~hook.disposed
    /\ HookStep("onCleanup", hook.input, onCleanup(hook))

\* The pending timer t fires: doDetection with the trimmed value it keeps
TimerFires(t) ==
    /\ t \in hook.timers
    /\ HookStep("timer", t.trimmed,
                doDetection([hook EXCEPT !.timers = @ \ {t}],
                            detectAll(detectors, config, t.trimmed).out))

\* The detections a caller can select, and null
Selectable == {<<>>} \cup {<<hook.detections[i]>> : i \in 1..Len(hook.detections)}

HookInit ==
    \E m \in HookRegistries, autoSelect \in BOOLEAN, initialValue \in Inputs :
        Mount(m, autoSelect, initialValue)

HookNext ==
    \/ \E value \in Inputs : SetInput(value)
    \/ DetectNow
    \/ Clear
    \/ \E detection \in Selectable : SelectDetection(detection)
    \/ Cleanup
    \/ \E t \in hook.timers : TimerFires(t)

HookSpec == HookInit /\ [][HookNext]_vars

----------------------------------------------------------------------------
(* Properties of useDetection *)

\* What the engine returns for the hook's present input
DetectedNow == detectAll(detectors, config, trim(hook.input)).out

\* C22: after any sequence of setInput, detectNow, clear, cleanup and timer
\* expirations at most one debounce timer is pending, it is the one
\* debounceTimer holds and it was set for the present input; a timer that
\* fires was set for the present input and writes that input's results.
C22_OneTimerOfLatestInput ==
    /\ Cardinality(hook.timers) <= 1
    /\ \A t \in hook.timers :
          /\ t.id = hook.debounceTimer
          /\ t.trimmed = trim(hook.input)
    /\ call.op = "timer" =>
          /\ call.input = trim(hook.input)
          /\ hook.detections = DetectedNow

\* setInput cleared the pending timer of another input and set one for the
\* new input, while the results of an earlier input are shown
C22_Witness ==
    /\ call.op = "setInput"
    /\ invoked # <<>>
    /\ invoked[1].input # trim(hook.input)
    /\ Cardinality(hook.timers) = 1
    /\ hook.detections # <<>>

\* The latest operation completed a detection run
DetectionCompleted ==
    \/ call.op = "timer"
    \/ call.op = "detectNow" /\ trim(hook.input) # <<>>

\* C25: with autoSelect, after every completed detection run the selected
\* detection is null or one of the present detections, a result made from
\* the present input: it has the pluginId, inputType and extractedId of a
\* member of the list.
C25_SelectionIsCurrent ==
    (hook.autoSelect /\ DetectionCompleted /\ hook.selectedDetection # <<>>) =>
        \E i \in 1..Len(hook.detections) :
            /\ hook.detections[i].pluginId = hook.selectedDetection[1].pluginId
            /\ hook.detections[i].inputType = hook.selectedDetection[1].inputType
            /\ hook.detections[i].extractedId = hook.selectedDetection[1].extractedId

----------------------------------------------------------------------------
(* AutoDetectInput: the component's detecting signal and debounce timer,    *)
(* and the props value, detections and selectedDetection, which the parent  *)
(* owns and writes in onInput, onDetectionsChange and onDetectionSelect.    *)

\* !local.selectedDetection || !results.some(r => r.pluginId === local.selectedDetection?.pluginId)
ShouldSelect(selected, results) ==
    \/ selected = <<>>
    \/ \A i \in 1..Len(results) : results[i].pluginId # selected[1].pluginId

\* The callback of setTimeout, results being what detectionEngine.detectAll(value) returned
ComponentDetected(c, results) ==
    [c EXCEPT !.detections = results,
              !.selectedDetection =
                  IF Len(results) > 0 /\ c.autoMode /\ ShouldSelect(c.selectedDetection, results)
                  THEN <<results[1]>> ELSE @,
              !.detecting = FALSE]

\* if (debounceTimer) clearTimeout(debounceTimer): the variable keeps its handle
ClearPending(c) ==
    IF c.debounceTimer # NoTimer THEN [c EXCEPT !.timers = clearTimeout(@, c.debounceTimer)]
    ELSE c

\* AutoDetectInput's runDetection(value)
ComponentRunDetection(c, value) ==
    LET Run2(cleared) ==
            IF trim(value) = <<>> THEN [cleared EXCEPT !.detections = <<>>]
            ELSE [cleared EXCEPT !.detecting = TRUE,
                                 !.debounceTimer = NewTimer(cleared),
                                 !.timers = @ \cup {[id |-> NewTimer(cleared), value |-> value]}]
    IN  Run2(ClearPending(c))

\* createEffect(() => runDetection(local.value))
ComponentEffect(c) == IF c.disposed THEN c ELSE ComponentRunDetection(c, c.value)

\* onInput(value) of the parent: the prop changes and the effect runs
onInput(c, value) ==
    IF value = c.value THEN c ELSE ComponentEffect([c EXCEPT !.value = value])

\* handleClear
handleClear(c) == [onInput(c, <<>>) EXCEPT !.detections = <<>>]

\* The component's onCleanup
ComponentCleanup(c) == [ClearPending(c) EXCEPT !.disposed = TRUE]

\* The component is rendered with the props of its parent
AutoDetectInput(value, autoMode) ==
    ComponentEffect([value |-> value, detections |-> <<>>, selectedDetection |-> <<>>,
                     detecting |-> FALSE, debounceTimer |-> NoTimer, timers |-> {},
                     autoMode |-> autoMode, disposed |-> FALSE])

Render(m, value, autoMode) ==
    /\ detectors = m
    /\ config = DEFAULT_CONFIG
    /\ call = Call("AutoDetectInput", value, "", NoDetector, EmptyPartial)
    /\ ret = <<>>
    /\ invoked = <<>>
    /\ regSeq = [k \in 1..Len(m) |-> m[k].id]
    /\ lastOp = [id \in DetectorIds |->
                    IF \E k \in 1..Len(m) : m[k].id = id
                    THEN (CHOOSE d \in Range(m) : d.id = id).name ELSE NoDetector]
    /\ baseline = NoBaseline
    /\ hook = <<>>
    /\ component = AutoDetectInput(value, autoMode)
    /\ db = <<>>

\* A handler of the component or its timer ran
ComponentStep(op, value, c) ==
    /\ component' = c
    /\ call' = Call(op, value, "", NoDetector, EmptyPartial)
    /\ ret' = <<>>
    /\ invoked' = <<>>
    /\ UNCHANGED <<detectors, config, regSeq, lastOp, baseline, hook, db>>

\* handleInput: the user changes the text
HandleInput(value) ==
    /\ ~component.disposed
    /\ ComponentStep("handleInput", value, onInput(component, value))

HandleClear ==
    /\ ~component.disposed
    /\ ComponentStep("handleClear", <<>>, handleClear(component))

Unmount ==
    /\ ~component.disposed
    /\ ComponentStep("onCleanup", component.value, ComponentCleanup(component))

ComponentTimerFires(t) ==
    /\ t \in component.timers
    /\ ComponentStep("timer", t.value,
                     ComponentDetected([component EXCEPT !.timers = @ \ {t}],
                                       detectAll(detectors, config, t.value).out))

ComponentInit ==
    \E m \in HookRegistries, value \in Inputs, autoMode \in BOOLEAN :
        Render(m, value, autoMode)

ComponentNext ==
    \/ \E value \in Inputs : HandleInput(value)
    \/ HandleClear
    \/ Unmount
    \/ \E t \in component.timers : ComponentTimerFires(t)

\* A pending timer fires in the end.  This is weak fairness of the timer
\* step, written out: the step is enabled exactly when a timer is pending.
TimersFire ==
    \/ []<>(component.timers = {})
    \/ []<><<\E t \in component.timers : ComponentTimerFires(t)>>_vars

ComponentSpec == ComponentInit /\ [][ComponentNext]_vars /\ TimersFire

\* While the component is mounted, once the value stops changing the
\* detecting flag becomes false in the end: when detecting is true at a
\* value, then in the end it is false, or the value has changed, or the
\* component is unmounted.
DetectingLeadsToIdle ==
    \A value \in Inputs :
        (component.value = value /\ component.detecting)
            ~> (~component.detecting \/ component.value # value \/ component.disposed)

\* ---------------------------------------------------------------------------
\* The study database: the CRUD actions of lib/db/actions.ts over the TinyBase
\* store of lib/db/schema.  A table is a function from row ids to rows and a
\* row is a function from cell names to values.  The store has no schema.
\* Of each row the model keeps the cells that an action reads back or that
\* tell the rows apart; the clock has one reading.
\* ---------------------------------------------------------------------------

\* uuid() calls that a table may see
MaxRows == 2

TableIds == {"resources", "notes", "topics", "categories"}

\* new Date().toISOString()
now == <<"n", "o", "w">>

\* The n-th uuid() issued for a table; no uuid is issued twice
uuid(table, n) ==
    <<CASE table = "resources" -> "r" [] table = "notes" -> "n"
        [] table = "topics" -> "t" [] OTHER -> "c", DigitChars[n + 1]>>

EmptyRow == <<>>

EmptyTable == <<>>

\* store.getTable(tableId)
getTable(d, tableId) == d[tableId]

\* store.getRow(tableId, rowId): the row, or an empty object when there is none
getRow(d, tableId, rowId) ==
    IF rowId \in DOMAIN d[tableId] THEN d[tableId][rowId] ELSE EmptyRow

\* store.setRow(tableId, rowId, row)
setRow(d, tableId, rowId, row) ==
    [d EXCEPT ![tableId] =
        [k \in DOMAIN @ \cup {rowId} |-> IF k = rowId THEN row ELSE @[k]]]

\* store.setPartialRow(tableId, rowId, partialRow): the cells given are set,
\* the others are kept; a row that is not there is created
setPartialRow(d, tableId, rowId, partialRow) ==
    setRow(d, tableId, rowId, partialRow @@ getRow(d, tableId, rowId))

\* store.setCell(tableId, rowId, cellId, cell)
setCell(d, tableId, rowId, cellId, cell) ==
    setPartialRow(d, tableId, rowId, cellId :> cell)

\* store.delRow(tableId, rowId)
delRow(d, tableId, rowId) ==
    [d EXCEPT ![tableId] = [k \in DOMAIN @ \ {rowId} |-> @[k]]]

\* !value of an object: an object is truthy, the empty one as well
IsFalsy(object) == FALSE

\* row.cell of a row read as an object: a sequence of at most one value
Cell(row, cellId) == IF cellId \in DOMAIN row THEN <<row[cellId]>> ELSE <<>>

\* (row.cell as string) || fallback
CellOr(row, cellId, fallback) ==
    IF cellId \in DOMAIN row /\ row[cellId] # <<>> THEN row[cellId] ELSE fallback

\* --- CategoryTopicMap: a JavaScript object, its keys in insertion order ---

EmptyMap == <<>>

\* categoryId in categoryTopics
hasCategory(categoryTopics, categoryId) ==
    \E k \in 1..Len(categoryTopics) : categoryTopics[k].key = categoryId

\* categoryTopics[categoryId], the key being there
TopicsOf(categoryTopics, categoryId) ==
    categoryTopics[CHOOSE k \in 1..Len(categoryTopics) :
                       categoryTopics[k].key = categoryId].value

\* categoryTopics[categoryId] = topicIds
SetKey(categoryTopics, categoryId, topicIds) ==
    IF hasCategory(categoryTopics, categoryId)
    THEN [k \in 1..Len(categoryTopics) |->
             IF categoryTopics[k].key = categoryId
             THEN [key |-> categoryId, value |-> topicIds]
             ELSE categoryTopics[k]]
    ELSE Append(categoryTopics, [key |-> categoryId, value |-> topicIds])

\* delete categoryTopics[categoryId]
DeleteKey(categoryTopics, categoryId) ==
    LET Other(entry) == entry.key # categoryId
    IN  SelectSeq(categoryTopics, Other)

\* topicIds.filter(tid => tid !== id)
Without(topicIds, id) ==
    LET Kept(tid) == tid # id
    IN  SelectSeq(topicIds, Kept)

\* Object.keys(categoryTopics)
getCategoryIds(categoryTopics) ==
    [k \in 1..Len(categoryTopics) |-> categoryTopics[k].key]

RECURSIVE flat(_)
\* arrays.flat()
flat(arrays) ==
    IF arrays = <<>> THEN <<>> ELSE arrays[1] \o flat(Tail(arrays))

\* Object.values(categoryTopics).flat()
getAllTopicIds(categoryTopics) ==
    flat([k \in 1..Len(categoryTopics) |-> categoryTopics[k].value])

\* --- JSON text of a CategoryTopicMap ---

Quote == "\""

RECURSIVE JoinWith(_, _)
\* parts.join(separator)
JoinWith(parts, separator) ==
    IF parts = <<>> THEN <<>>
    ELSE IF Len(parts) = 1 THEN parts[1]
    ELSE parts[1] \o separator \o JoinWith(Tail(parts), separator)

\* JSON text of a string without characters to escape (a uuid has none)
StringifyString(s) == <<Quote>> \o s \o <<Quote>>

\* JSON text of an array of strings
StringifyArray(topicIds) ==
    <<"[">> \o JoinWith([k \in 1..Len(topicIds) |-> StringifyString(topicIds[k])], <<",">>)
            \o <<"]">>

\* JSON.stringify(categoryTopics)
JSONstringify(categoryTopics) ==
    <<"{">> \o JoinWith([k \in 1..Len(categoryTopics) |->
                            StringifyString(categoryTopics[k].key) \o <<":">>
                                \o StringifyArray(categoryTopics[k].value)],
                        <<",">>)
            \o <<"}">>

\* The character at a position of a text, "" past its end
CharAt(text, i) == IF i \in 1..Len(text) THEN text[i] ELSE ""

Failed == [ok |-> FALSE, value |-> <<>>, next |-> 0]

ParsedAt(value, next) == [ok |-> TRUE, value |-> value, next |-> next]

\* A string literal that starts at position i
ParseString(text, i) ==
    IF CharAt(text, i) = Quote /\ \E j \in (i + 1)..Len(text) : text[j] = Quote
    THEN LET Closed(j) == ParsedAt(SubSeq(text, i + 1, j - 1), j + 1)
         IN  Closed(CHOOSE j \in (i + 1)..Len(text) :
                        /\ text[j] = Quote
                        /\ \A k \in (i + 1)..(j - 1) : text[k] # Quote)
    ELSE Failed

RECURSIVE ParseElements(_, _, _)
\* The elements of an array from position i on, up to its closing bracket
ParseElements(text, i, elements) ==
    LET Element(string) ==
            IF ~string.ok THEN Failed
            ELSE IF CharAt(text, string.next) = ","
            THEN ParseElements(text, string.next + 1, Append(elements, string.value))
            ELSE IF CharAt(text, string.next) = "]"
            THEN ParsedAt(Append(elements, string.value), string.next + 1)
            ELSE Failed
    IN  Element(ParseString(text, i))

\* An array of strings that starts at position i
ParseArray(text, i) ==
    IF CharAt(text, i) # "[" THEN Failed
    ELSE IF CharAt(text, i + 1) = "]" THEN ParsedAt(<<>>, i + 2)
    ELSE ParseElements(text, i + 1, <<>>)

RECURSIVE ParseMembers(_, _, _)
\* The members of an object from position i on, up to its closing brace; a
\* key that comes again replaces the value at the key's first place
ParseMembers(text, i, members) ==
    LET Member(key, array) ==
            IF ~array.ok THEN Failed
            ELSE IF CharAt(text, array.next) = ","
            THEN ParseMembers(text, array.next + 1, SetKey(members, key.value, array.value))
            ELSE IF CharAt(text, array.next) = "}"
            THEN ParsedAt(SetKey(members, key.value, array.value), array.next + 1)
            ELSE Failed
        Keyed(key) ==
            IF ~key.ok \/ CharAt(text, key.next) # ":" THEN Failed
            ELSE Member(key, ParseArray(text, key.next + 1))
    IN  Keyed(ParseString(text, i))

\* JSON.parse(json) of the text of an object of string arrays; any other text
\* fails here (JSON.parse throws on a text that is no JSON)
JSONparse(json) ==
    LET Whole(object) ==
            IF object.ok /\ object.next = Len(json) + 1 THEN object ELSE Failed
    IN  IF CharAt(json, 1) # "{" THEN Failed
        ELSE IF CharAt(json, 2) = "}" THEN Whole(ParsedAt(EmptyMap, 3))
        ELSE Whole(ParseMembers(json, 2, EmptyMap))

\* parseCategoryTopics(json): JSON.parse(json) || {}, and {} when it throws
parseCategoryTopics(json) ==
    LET Caught(object) == IF object.ok THEN object.value ELSE EmptyMap
    IN  Caught(JSONparse(json))

\* --- The actions of lib/db/actions.ts, as operators on the store ---

\* The store before any row is written
createStore ==
    [resources |-> EmptyTable, notes |-> EmptyTable, topics |-> EmptyTable,
     categories |-> EmptyTable, issued |-> [table \in TableIds |-> 0]]

\* const id = uuid()
NextId(d, table) == uuid(table, d.issued[table] + 1)

Issue(d, table) == [d EXCEPT !.issued[table] = @ + 1]

\* rowToNote(rowId, row).resourceId
NoteResourceId(row) == CellOr(row, "resourceId", <<>>)

createResource(d, data) ==
    setRow(Issue(d, "resources"), "resources", NextId(d, "resources"),
           [id |-> NextId(d, "resources"),
            title |-> data.title,
            categoryTopics |->
                JSONstringify(IF data.categoryTopics = <<>> THEN EmptyMap
                              ELSE data.categoryTopics[1]),
            updatedAt |-> now])

deleteResource(d, id) ==
    delRow([d EXCEPT !.notes =
               [noteId \in {k \in DOMAIN @ : Cell(@[k], "resourceId") # <<id>>} |-> @[noteId]]],
           "resources", id)

addTopicToResource(d, resourceId, categoryId, topicId) ==
    LET Pushed(categoryTopics) ==
            IF topicId \notin Range(TopicsOf(categoryTopics, categoryId))
            THEN setPartialRow(d, "resources", resourceId,
                     [categoryTopics |->
                          JSONstringify(SetKey(categoryTopics, categoryId,
                              Append(TopicsOf(categoryTopics, categoryId), topicId))),
                      updatedAt |-> now])
            ELSE d
        Keyed(categoryTopics) ==
            Pushed(IF ~hasCategory(categoryTopics, categoryId)
                   THEN SetKey(categoryTopics, categoryId, <<>>)
                   ELSE categoryTopics)
        Found(row) ==
            IF IsFalsy(row) THEN d
            ELSE Keyed(parseCategoryTopics(CellOr(row, "categoryTopics", <<"{", "}">>)))
    IN  Found(getRow(d, "resources", resourceId))

removeTopicFromResource(d, resourceId, categoryId, topicId) ==
    LET Filtered(categoryTopics) ==
            setPartialRow(d, "resources", resourceId,
                [categoryTopics |->
                     JSONstringify(IF TopicsOf(categoryTopics, categoryId) = <<>>
                                   THEN DeleteKey(categoryTopics, categoryId)
                                   ELSE categoryTopics),
                 updatedAt |-> now])
        Keyed(categoryTopics) ==
            IF hasCategory(categoryTopics, categoryId)
            THEN Filtered(SetKey(categoryTopics, categoryId,
                                 Without(TopicsOf(categoryTopics, categoryId), topicId)))
            ELSE d
        Found(row) ==
            IF IsFalsy(row) THEN d
            ELSE Keyed(parseCategoryTopics(CellOr(row, "categoryTopics", <<"{", "}">>)))
    IN  Found(getRow(d, "resources", resourceId))

createNote(d, data) ==
    setRow(Issue(d, "notes"), "notes", NextId(d, "notes"),
           [id |-> NextId(d, "notes"),
            resourceId |-> data.resourceId,
            type |-> data.type,
            content |-> data.content,
            updatedAt |-> now])

\* data holds the cells of type and content that are not undefined
updateNote(d, id, data) ==
    IF IsFalsy(getRow(d, "notes", id)) THEN d
    ELSE setPartialRow(d, "notes", id, data @@ ("updatedAt" :> now))

deleteNote(d, id) == delRow(d, "notes", id)

\* The largest order cell of the categories, -1 when there is none
RECURSIVE MaxOrder(_, _)
MaxOrder(table, ids) ==
    IF ids = {} THEN -1
    ELSE LET Reduced(id, row) ==
                 LET order == IF "order" \in DOMAIN row THEN row.order ELSE 0
                     rest == MaxOrder(table, ids \ {id})
                 IN  IF order > rest THEN order ELSE rest
             Picked(id) == Reduced(id, table[id])
         IN  Picked(CHOOSE id \in ids : TRUE)

\* data.order is undefined
createCategory(d, data) ==
    setRow(Issue(d, "categories"), "categories", NextId(d, "categories"),
           [id |-> NextId(d, "categories"),
            name |-> data.name,
            color |-> data.color,
            order |-> MaxOrder(getTable(d, "categories"),
                               DOMAIN getTable(d, "categories")) + 1])

deleteCategory(d, id) ==
    LET Removed(row, categoryTopics) ==
            IF hasCategory(categoryTopics, id)
            THEN ("categoryTopics" :> JSONstringify(DeleteKey(categoryTopics, id))) @@ row
            ELSE row
        Untagged(row) ==
            Removed(row, parseCategoryTopics(CellOr(row, "categoryTopics", <<"{", "}">>)))
    IN  delRow([d EXCEPT
                   !.topics = [topicId \in {k \in DOMAIN @ : Cell(@[k], "categoryId") # <<id>>}
                                   |-> @[topicId]],
                   !.resources = [resourceId \in DOMAIN @ |-> Untagged(@[resourceId])]],
               "categories", id)

\* data.color is a sequence of at most one colour
createTopic(d, data) ==
    setRow(Issue(d, "topics"), "topics", NextId(d, "topics"),
           [id |-> NextId(d, "topics"),
            name |-> data.name,
            categoryId |-> data.categoryId,
            color |-> IF data.color # <<>> THEN data.color[1]
                      ELSE CellOr(getRow(d, "categories", data.categoryId),
                                  "color", <<"#", "3", "b", "8", "2", "f", "6">>)])

\* data holds the cells of name, color and categoryId that are not undefined
updateTopic(d, id, data) ==
    IF IsFalsy(getRow(d, "topics", id)) THEN d
    ELSE IF DOMAIN data # {} THEN setPartialRow(d, "topics", id, data)
    ELSE d

deleteTopic(d, id) ==
    LET Holds(entry) == id \in Range(entry.value)
        Stays(entry) == ~Holds(entry) \/ Without(entry.value, id) # <<>>
        Stripped(categoryTopics) ==
            SelectSeq([k \in 1..Len(categoryTopics) |->
                          [key |-> categoryTopics[k].key,
                           value |-> Without(categoryTopics[k].value, id)]],
                      LAMBDA entry : \E k \in 1..Len(categoryTopics) :
                                         /\ categoryTopics[k].key = entry.key
                                         /\ Stays(categoryTopics[k]))
        Removed(row, categoryTopics) ==
            IF \E k \in 1..Len(categoryTopics) : Holds(categoryTopics[k])
            THEN ("categoryTopics" :> JSONstringify(Stripped(categoryTopics))) @@ row
            ELSE row
        Untagged(row) ==
            Removed(row, parseCategoryTopics(CellOr(row, "categoryTopics", <<"{", "}">>)))
    IN  delRow([d EXCEPT !.resources = [resourceId \in DOMAIN @ |-> Untagged(@[resourceId])]],
               "topics", id)

\* --- The database as a state machine ---

\* The ids a caller may hold: those that uuid() has issued for a table
IssuedIds(table) == {uuid(table, n) : n \in 1..db.issued[table]}

ResourceData ==
    {[title |-> <<"a">>, categoryTopics |-> categoryTopics] :
        categoryTopics \in {<<>>, <<EmptyMap>>}}

NoteUpdates == {<<>>, "content" :> <<"b">>, "type" :> <<"p", "e", "a", "r", "l">>}

\* The store is opened empty
OpenStore ==
    /\ detectors = <<>>
    /\ config = DEFAULT_CONFIG
    /\ call = Call("createStore", <<>>, "", NoDetector, EmptyPartial)
    /\ ret = <<>>
    /\ invoked = <<>>
    /\ regSeq = <<>>
    /\ lastOp = [id \in DetectorIds |-> NoDetector]
    /\ baseline = NoBaseline
    /\ hook = <<>>
    /\ component = <<>>
    /\ db = createStore

\* An action of the database ran on its arguments
DbStep(op, arguments, d) ==
    /\ db' = d
    /\ call' = Call(op, arguments, "", NoDetector, EmptyPartial)
    /\ ret' = <<>>
    /\ invoked' = <<>>
    /\ UNCHANGED <<detectors, config, regSeq, lastOp, baseline, hook, component>>

\* A resource is created without tags
CreateResource ==
    /\ db.issued["resources"] < MaxRows
    /\ \E data \in ResourceData :
           DbStep("createResource", <<>>, createResource(db, data))

DeleteResource(id) ==
    DbStep("deleteResource", <<id>>, deleteResource(db, id))

\* A note is written for a resource that is there
CreateNote(resourceId) ==
    /\ db.issued["notes"] < MaxRows
    /\ resourceId \in DOMAIN db.resources
    /\ DbStep("createNote", <<resourceId>>,
              createNote(db, [resourceId |-> resourceId, type |-> <<"g", "e", "n", "e", "r", "a", "l">>,
                              content |-> <<"a">>]))

UpdateNote(id, data) ==
    DbStep("updateNote", <<id>>, updateNote(db, id, data))

DeleteNote(id) ==
    DbStep("deleteNote", <<id>>, deleteNote(db, id))

NoteNext ==
    \/ CreateResource
    \/ \E id \in IssuedIds("resources") : DeleteResource(id)
    \/ \E resourceId \in IssuedIds("resources") : CreateNote(resourceId)
    \/ \E id \in IssuedIds("notes"), data \in NoteUpdates : UpdateNote(id, data)
    \/ \E id \in IssuedIds("notes") : DeleteNote(id)

\* The resources and their notes
NoteSpec == OpenStore /\ [][NoteNext]_vars

CreateCategory ==
    /\ db.issued["categories"] < MaxRows
    /\ DbStep("createCategory", <<>>,
              createCategory(db, [name |-> <<"a">>, color |-> <<"r", "e", "d">>]))

DeleteCategory(id) ==
    DbStep("deleteCategory", <<id>>, deleteCategory(db, id))

\* A topic is created under a category that is there
CreateTopic(categoryId) ==
    /\ db.issued["topics"] < MaxRows
    /\ categoryId \in DOMAIN db.categories
    /\ \E color \in {<<>>, <<<<"r", "e", "d">>>>} :
           DbStep("createTopic", <<categoryId>>,
                  createTopic(db, [name |-> <<"a">>, categoryId |-> categoryId,
                                   color |-> color]))

\* A topic is renamed, or moved to a category that is there
UpdateTopic(id, data) ==
    /\ "categoryId" \in DOMAIN data => data.categoryId \in DOMAIN db.categories
    /\ DbStep("updateTopic", <<id>>, updateTopic(db, id, data))

\* A resource that is there is tagged with a topic that is there, under the
\* topic's current category
AddTopicToResource(resourceId, topicId) ==
    /\ resourceId \in DOMAIN db.resources
    /\ topicId \in DOMAIN db.topics
    /\ "categoryId" \in DOMAIN db.topics[topicId]
    /\ DbStep("addTopicToResource",
              <<resourceId, db.topics[topicId].categoryId, topicId>>,
              addTopicToResource(db, resourceId, db.topics[topicId].categoryId, topicId))

RemoveTopicFromResource(resourceId, categoryId, topicId) ==
    DbStep("removeTopicFromResource", <<resourceId, categoryId, topicId>>,
           removeTopicFromResource(db, resourceId, categoryId, topicId))

DeleteTopic(id) ==
    DbStep("deleteTopic", <<id>>, deleteTopic(db, id))

TopicUpdates ==
    {<<>>, "name" :> <<"a">>} \cup {"categoryId" :> id : id \in IssuedIds("categories")}

\* Resources that are tagged
MaxTagged == 1

TagNext ==
    \/ db.issued["resources"] < MaxTagged /\ CreateResource
    \/ CreateCategory
    \/ \E categoryId \in IssuedIds("categories") : CreateTopic(categoryId)
    \/ \E id \in IssuedIds("topics"), data \in TopicUpdates : UpdateTopic(id, data)
    \/ \E resourceId \in IssuedIds("resources"), topicId \in IssuedIds("topics") :
           AddTopicToResource(resourceId, topicId)
    \/ \E resourceId \in IssuedIds("resources"), categoryId \in IssuedIds("categories"),
          topicId \in IssuedIds("topics") :
           RemoveTopicFromResource(resourceId, categoryId, topicId)
    \/ \E id \in IssuedIds("topics") : DeleteTopic(id)
    \/ \E id \in IssuedIds("categories") : DeleteCategory(id)

\* The resources and their tags: categories, topics, and categoryTopics
TagSpec == OpenStore /\ [][TagNext]_vars

\* The tags of a resource row, read as the application reads them
TagsOf(row) == parseCategoryTopics(CellOr(row, "categoryTopics", <<"{", "}">>))

\* C28: after any sequence of createCategory, createTopic, updateTopic,
\* addTopicToResource (for a resource that is there and a topic that is there,
\* under the topic's current category), removeTopicFromResource, deleteTopic
\* and deleteCategory, every topic id in a resource's categoryTopics is the id
\* of a topic row and every category key in it is the id of a category row.
C28_TagsReferToRows ==
    \A resourceId \in DOMAIN db.resources :
        /\ Range(getAllTopicIds(TagsOf(db.resources[resourceId]))) \subseteq DOMAIN db.topics
        /\ Range(getCategoryIds(TagsOf(db.resources[resourceId]))) \subseteq DOMAIN db.categories

\* Every note's resourceId is the id of a resource row
NotesRefer ==
    \A noteId \in DOMAIN db.notes :
        NoteResourceId(db.notes[noteId]) \in DOMAIN db.resources

\* The notes of a table whose resourceId is not the given id
NotesOfOthers(notes, id) ==
    [noteId \in {k \in DOMAIN notes : NoteResourceId(notes[k]) # id} |-> notes[noteId]]

\* deleteResource(id) removes the notes of id, and no other note
DeleteRemovesNotes ==
    call'.op = "deleteResource" => db'.notes = NotesOfOthers(db.notes, call'.input[1])

\* C29: after any sequence of createResource, createNote (for a resource that
\* is there), updateNote, deleteNote and deleteResource, every note's
\* resourceId is the id of a resource row; deleteResource(id) removes every
\* note whose resourceId is id and leaves the other notes as they are.
C29_NotesReferToResources == []NotesRefer /\ [][DeleteRemovesNotes]_vars

----------------------------------------------------------------------------
(* The ISBN-10 check character *)

\* The check characters of an ISBN-10
CheckChars == Range(DigitChars) \cup {"X"}

\* 9 digits and a digit, X or x
IsIsbn10Input(s) ==
    /\ Len(s) = 10
    /\ \A i \in 1..9 : IsDigit(s[i])
    /\ s[10] \in CheckChars \cup {"x"}

\* The strings that come from s by replacing one digit by a different digit
DigitReplacements(s) ==
    {[s EXCEPT ![i] = c] : i \in {k \in 1..Len(s) : IsDigit(s[k])},
                           c \in Range(DigitChars)} \ {s}

\* s comes from an accepted ISBN-10 by replacing one digit by another
OneDigitOffIsbn10(s) ==
    IsIsbn10Input(s) /\ \E t \in DigitReplacements(s) : IsbnChecksumValid(toUpperCase(t))

\* C30: for every 9-digit prefix exactly one check character among 0-9 and
\* X makes validateIsbn10 accept the 10 characters, x is accepted exactly
\* when X is, and the accepted strings are those whose digits weighted 10 to
\* 2 plus the check value (X counting 10) sum to a multiple of 11; an
\* accepted ISBN-10 with one digit replaced by a different digit is rejected.
\* The Book detector reports definite for the accepted string and high for
\* the string with the replaced digit, from detect and from detectAll.
C30_Isbn10CheckCharacter ==
    (CalledOn(bookDetector) /\ IsIsbn10Input(Cleaned)) =>
        /\ Cardinality({c \in CheckChars :
                           validateIsbn10(SubSeq(Cleaned, 1, 9) \o <<c>>)}) = 1
        /\ validateIsbn10(SubSeq(Cleaned, 1, 9) \o <<"x">>)
               = validateIsbn10(SubSeq(Cleaned, 1, 9) \o <<"X">>)
        /\ validateIsbn10(Cleaned) = IsbnChecksumValid(toUpperCase(Cleaned))
        /\ validateIsbn10(Cleaned) =>
              /\ \A t \in DigitReplacements(Cleaned) : ~validateIsbn10(t)
              /\ ret # <<>> /\ ret[1].confidence = "definite"
        /\ OneDigitOffIsbn10(Cleaned) =>
              /\ ~validateIsbn10(Cleaned)
              /\ ret # <<>> /\ ret[1].confidence = "high"

\* detectAll answered high for an ISBN-10 whose check digit was replaced
C30_Witness ==
    /\ CalledOn(bookDetector)
    /\ call.op = "detector.detectAll"
    /\ IsIsbn10Input(call.input)
    /\ IsbnChecksumValid([call.input EXCEPT ![10] = "2"])
    /\ call.input[10] = "7"
    /\ ret # <<>>
    /\ ret[1].confidence = "high"

\* C27: while the component is mounted, once the value stops changing the
\* detecting flag becomes false in the end, whatever value changes came
\* before, a change to a blank value and a clear while a timer is pending
\* among them.  While the value stays as it is only a timer that fires
\* turns detecting off, and a pending timer does fire; so detecting ends
\* exactly when, on a mounted component, detecting is never true without a
\* pending timer.
C27_DetectingEnds ==
    (component.detecting /\ ~component.disposed) => component.timers # {}

====
